---- MODULE Spec2Model ----
(***************************************************************************)
(* Stream gateway (apps/stream-gateway/src/app.ts): the stream registry,  *)
(* the playback-token verifier, the session manager and the HTTP          *)
(* handlers, as a state machine.  A handler that awaits is split at its   *)
(* awaits: between two steps of one request any other handler, timer      *)
(* callback or file-system completion may run (Node's event loop).        *)
(***************************************************************************)
EXTENDS Integers, Sequences, FiniteSets, TLC

VARIABLES
  streams,         \* Map<string, StreamEntry>, keyed by streamKey
  streamSessions,  \* Map<string, StreamSessionEntry>, keyed by streamSessionKey
  files,           \* storage directory: set of <<tenantId, cameraId, asset>> present on disk
  now,             \* Date.now(), in milliseconds
  provisions,      \* POST /provision handlers suspended in ensureMockPlaylist, by slot
  playbacks,       \* playback handlers suspended in readWithRetry, by slot
  playbackRequestCounters,    \* Map<metricKey, number>
  playbackErrorCounters,      \* Map<metricKey, number>
  playbackReadRetryCounters,  \* Map<metricKey, number>
  sessionSweepCount,          \* number of sweep passes
  lastResp,        \* the response sent by the step that led to this state
  stoppedAck,      \* history: keys whose deprovision answered removed=true, no provision request since
  verified,        \* the verifier's result for the drawn token (token specification only)
  playbackReadRetries,      \* retry budget of readWithRetry, fixed at construction
  playbackReadRetryBaseMs,  \* first backoff wait (ms), fixed at construction
  playbackReadRetryMaxMs,   \* cap of one backoff wait (ms), fixed at construction
  probeTimer,        \* the handle setInterval returned for the probe loop, or null
  sessionSweepTimer, \* the handle setInterval returned for the sweep loop, or null
  intervals,         \* the runtime's live interval timers, counted per callback
  streamSessionRows,         \* control plane: the rows of prisma.streamSession, by id
  streamSessionTransitions,  \* control plane: the rows of prisma.streamSessionTransition, oldest first
  apiResp,           \* control plane: the response sent by the step that led to this state
  loginBuckets,      \* control plane: Map<string, { count, resetAt }>, keyed by client address
  loginAttempts,     \* history: the login attempts so far, oldest first
  streamRequests,    \* control plane: session handlers suspended at an await, by slot
  cameras,               \* control plane: the rows of prisma.camera, by id
  cameraHealthSnapshots, \* control plane: the rows of prisma.cameraHealthSnapshot, by cameraId
  cameraLifecycleLogs    \* control plane: the rows of prisma.cameraLifecycleLog, oldest first

vars == <<streams, streamSessions, files, now, provisions, playbacks,
          playbackRequestCounters, playbackErrorCounters, playbackReadRetryCounters,
          sessionSweepCount, lastResp, stoppedAck, verified,
          playbackReadRetries, playbackReadRetryBaseMs, playbackReadRetryMaxMs,
          probeTimer, sessionSweepTimer, intervals,
          streamSessionRows, streamSessionTransitions, apiResp,
          loginBuckets, loginAttempts, streamRequests,
          cameras, cameraHealthSnapshots, cameraLifecycleLogs>>

metricVars == <<playbackRequestCounters, playbackErrorCounters, playbackReadRetryCounters>>

configVars == <<playbackReadRetries, playbackReadRetryBaseMs, playbackReadRetryMaxMs>>

loopVars == <<probeTimer, sessionSweepTimer, intervals>>

loginVars == <<loginBuckets, loginAttempts>>

cameraVars == <<cameras, cameraHealthSnapshots, cameraLifecycleLogs>>

controlVars == <<streamSessionRows, streamSessionTransitions, apiResp, loginVars,
                 streamRequests, cameraVars>>

-----------------------------------------------------------------------------
(* Bounds of the model *)

MaxVersion == 3      \* versions are explored up to this value
MaxProvisions == 2   \* POST /provision handlers in flight at once, where they race
MaxNow == 2000       \* the clock stops here (ms)
ClockStep == 1000    \* the clock advances by this much (ms)
RaceRequests == 1    \* playback requests per behaviour, provisioning races
SessionRequests == 2 \* playback requests per behaviour, session life cycle
MaxSweeps == 1       \* sweep passes per behaviour
SessionVersions == 2 \* versions explored in the session life cycle
PlaybackVersions == 2  \* versions explored in the playback checks
PlaybackRequests == 2  \* playback requests per behaviour, playback checks
ProvisionSlots == 1    \* POST /provision handlers in flight at once, configuration changes
ScopeVersions == 2     \* versions explored in the scope checks
ScopeRequests == 1     \* playback requests per behaviour, scope checks
TenantVersions == 2    \* versions explored per tenant, tenant isolation
TenantRequests == 2    \* playback requests per behaviour, tenant isolation
DeprovisionRequests == 2  \* playback requests per behaviour, deprovision
RetryVersions == 1        \* versions explored in the retrying read
RetryRequests == 2        \* playback requests per behaviour, retrying read
MaxRetriesEnv == 2        \* largest STREAM_PLAYBACK_READ_RETRIES drawn, retrying read
ShutdownVersions == 1     \* versions explored around the shutdown
ShutdownRequests == 1     \* playback requests per behaviour, shutdown
ObserveVersions == 1      \* versions explored in the session observation
ObserveRequests == 2      \* playback requests per behaviour, session observation
BackoffVersions == 1      \* versions explored in the backoff
BackoffRequests == 1      \* playback requests per behaviour, backoff
BackoffRetriesEnv == 3    \* largest STREAM_PLAYBACK_READ_RETRIES drawn, backoff
BackoffBaseMsEnv == 3     \* largest STREAM_PLAYBACK_READ_RETRY_BASE_MS drawn, backoff
ListVersions == 1         \* versions explored in the session list
ListRequests == 2         \* playback requests per behaviour, session list
ControlSessions == 2      \* stream sessions issued by the control plane
MaxTransitions == 6       \* transitions recorded before requests stop
ControlTicks == 1         \* clock steps past a token's lifetime
SweepPasses == 2          \* sweep passes per behaviour, sweep specification
SweepVersions == 1        \* versions explored in the sweep specification
SweepPlaybacks == 2       \* playback requests per behaviour, sweep specification
UpsertVersions == 1       \* versions explored in the session upsert specification
UpsertRequests == 2       \* playback requests per behaviour, session upsert
ExpiryVersions == 1       \* versions explored at the edge of expiry
ExpiryRequests == 2       \* playback requests per behaviour, edge of expiry
ExpiryMaxNow == 2001      \* the clock stops here at the edge of expiry
LoginRateLimitMaxEnv == 2       \* LOGIN_RATE_LIMIT_MAX of the deployment checked
LoginRateLimitWindowMsEnv == 2  \* LOGIN_RATE_LIMIT_WINDOW_MS of the deployment checked
LoginRequests == 5        \* login attempts
LoginTicks == 4           \* clock steps of one millisecond
ControlSlots == 2         \* control-plane session handlers in flight at once
InterleaveSessions == 1   \* sessions issued
InterleaveTransitions == 4  \* transitions recorded
CameraCount == 1          \* cameras created
MaxLifecycleLogs == 4     \* lifecycle log rows
CameraTicks == 1          \* clock steps of one millisecond
BackoffMaxMsEnv == 8      \* largest STREAM_PLAYBACK_READ_RETRY_MAX_MS drawn, backoff

(* Configuration read from the environment at start-up *)

StartNow == 1000            \* wall clock at construction (ms)
sessionIdleTtlMs == 500     \* STREAM_SESSION_IDLE_TTL_MS
RetriesEnv == 1             \* STREAM_PLAYBACK_READ_RETRIES
RetryBaseMsEnv == 25        \* STREAM_PLAYBACK_READ_RETRY_BASE_MS (the default)
RetryMaxMsEnv == 250        \* STREAM_PLAYBACK_READ_RETRY_MAX_MS (the default)
streamTokenSecret == "secret"

(* Program constants *)

MsPerSecond == 1000   \* Date.now() / 1000, exp * 1000
HmacB64Len == 43      \* length of a base64url HMAC-SHA256 digest

-----------------------------------------------------------------------------
(* Maps *)

Has(map, key) == key \in DOMAIN map

MapSet(map, key, value) ==
  [k \in DOMAIN map \cup {key} |-> IF k = key THEN value ELSE map[k]]

streamKey(tenantId, cameraId) == tenantId \o ":" \o cameraId

streamSessionKey(tenantId, cameraId, sid) == tenantId \o ":" \o cameraId \o ":" \o sid

\* new Date(ms).toISOString(): the instant as an ISO-8601 string, to the millisecond
ToISOString(ms) == [iso |-> ms]

nowIso == ToISOString(now)

\* Date.parse of an ISO-8601 string
DateParse(s) == s.iso

-----------------------------------------------------------------------------
(* Playback tokens.  A token string is modelled by the array that          *)
(* token.split(".") yields: one part per "."-separated piece.  A part is   *)
(* a string, known here by what the verifier can tell about it.            *)

EmptyPart == [k |-> "empty"]           \* the empty string
UndefinedPart == [k |-> "undefined"]   \* a destructured element past the end of the array
GarbagePart == [k |-> "garbage"]       \* a non-empty string that is neither base64url JSON nor 43 characters long
ForgedPart == [k |-> "forged"]         \* a 43-character string that is nobody's digest

\* Buffer.from(JSON.stringify(payload), "utf8").toString("base64url")
EncodePayload(payload) == [k |-> "b64json", payload |-> payload]

\* createHmac("sha256", secret).update(part).digest("base64url")
Hmac(secret, part) == [k |-> "mac", key |-> secret, over |-> part]

\* Buffer.from(part, "utf8").length
PartLen(part) ==
  CASE part.k = "empty" -> 0
    [] part.k = "mac" -> HmacB64Len
    [] part.k = "forged" -> HmacB64Len
    [] part.k = "garbage" -> 7
    [] OTHER -> 120

\* JavaScript truthiness of a destructured string: undefined and "" are falsy
Truthy(part) == part.k \notin {"undefined", "empty"}

NoPayload == [sub |-> "", tid |-> "", cid |-> "", sid |-> "", exp |-> 0, iat |-> 0, v |-> 0]

\* StreamPlaybackTokenSchema.safeParse(decodedPayload).success
StreamPlaybackTokenSchema(p) ==
  /\ p.sub # ""
  /\ p.tid # ""
  /\ p.cid # ""
  /\ p.sid # ""
  /\ p.exp > 0
  /\ p.iat > 0
  /\ p.v = 1

\* JSON.parse(Buffer.from(payloadBase64, "base64url").toString("utf8")) returns (does not throw)
Decodes(part) == part.k = "b64json"

\* const [payloadBase64, signatureBase64] = token.split(".")
Destructure(token, i) == IF Len(token) >= i THEN token[i] ELSE UndefinedPart

Rejected(reason) == [ok |-> FALSE, reason |-> reason, payload |-> NoPayload]

\* a faulty variant: the payload is decoded and its expiry checked before the signature
verifyTokenDetailed_PayloadFirst(token, secret, clock) ==
  LET payloadBase64 == Destructure(token, 1)
      signatureBase64 == Destructure(token, 2)
      expectedSignature == Hmac(secret, payloadBase64)
  IN  IF ~Truthy(payloadBase64) \/ ~Truthy(signatureBase64) THEN Rejected("format_invalid")
      ELSE IF ~Decodes(payloadBase64) THEN Rejected("payload_invalid")
      ELSE IF ~StreamPlaybackTokenSchema(payloadBase64.payload) THEN Rejected("payload_invalid")
      ELSE IF payloadBase64.payload.exp <= clock \div MsPerSecond THEN Rejected("token_expired")
      ELSE IF PartLen(expectedSignature) # PartLen(signatureBase64) THEN Rejected("signature_invalid")
      ELSE IF expectedSignature # signatureBase64 THEN Rejected("signature_invalid")
      ELSE [ok |-> TRUE, reason |-> "ok", payload |-> payloadBase64.payload]

\* a faulty variant: a token is still good in the second of its exp
verifyTokenDetailed_ExpStrict(token, secret, clock) ==
  LET payloadBase64 == Destructure(token, 1)
      signatureBase64 == Destructure(token, 2)
      expectedSignature == Hmac(secret, payloadBase64)
  IN  IF ~Truthy(payloadBase64) \/ ~Truthy(signatureBase64) THEN Rejected("format_invalid")
      ELSE IF PartLen(expectedSignature) # PartLen(signatureBase64) THEN Rejected("signature_invalid")
      ELSE IF expectedSignature # signatureBase64 THEN Rejected("signature_invalid")
      ELSE IF ~Decodes(payloadBase64) THEN Rejected("payload_invalid")
      ELSE IF ~StreamPlaybackTokenSchema(payloadBase64.payload) THEN Rejected("payload_invalid")
      ELSE IF payloadBase64.payload.exp < clock \div MsPerSecond THEN Rejected("token_expired")
      ELSE [ok |-> TRUE, reason |-> "ok", payload |-> payloadBase64.payload]

verifyTokenDetailed(token, secret, clock) ==
  LET payloadBase64 == Destructure(token, 1)
      signatureBase64 == Destructure(token, 2)
      expectedSignature == Hmac(secret, payloadBase64)
  IN  IF ~Truthy(payloadBase64) \/ ~Truthy(signatureBase64) THEN Rejected("format_invalid")
      ELSE IF PartLen(expectedSignature) # PartLen(signatureBase64) THEN Rejected("signature_invalid")
      ELSE IF expectedSignature # signatureBase64 THEN Rejected("signature_invalid")
      ELSE IF ~Decodes(payloadBase64) THEN Rejected("payload_invalid")
      ELSE IF ~StreamPlaybackTokenSchema(payloadBase64.payload) THEN Rejected("payload_invalid")
      ELSE IF payloadBase64.payload.exp <= clock \div MsPerSecond THEN Rejected("token_expired")
      ELSE [ok |-> TRUE, reason |-> "ok", payload |-> payloadBase64.payload]

\* the empty array stands for an absent query parameter; "" splits to one empty part
TokenAbsent == << >>
TokenEmpty == << EmptyPart >>

reasonMap(reason) ==
  CASE reason = "format_invalid" -> [statusCode |-> 401, code |-> "PLAYBACK_TOKEN_FORMAT_INVALID"]
    [] reason = "signature_invalid" -> [statusCode |-> 401, code |-> "PLAYBACK_TOKEN_SIGNATURE_INVALID"]
    [] reason = "payload_invalid" -> [statusCode |-> 401, code |-> "PLAYBACK_TOKEN_PAYLOAD_INVALID"]
    [] reason = "token_expired" -> [statusCode |-> 401, code |-> "PLAYBACK_TOKEN_EXPIRED"]

\* the scope check refusing only a token that names neither the tenant nor
\* the camera of the path
parseAndValidatePlaybackToken_BothDiffer(token, tenantId, cameraId, clock) ==
  IF token = TokenAbsent \/ token = TokenEmpty
  THEN [statusCode |-> 401, code |-> "PLAYBACK_TOKEN_MISSING", payload |-> NoPayload]
  ELSE LET validation == verifyTokenDetailed(token, streamTokenSecret, clock)
       IN  IF ~validation.ok
           THEN [statusCode |-> reasonMap(validation.reason).statusCode,
                 code |-> reasonMap(validation.reason).code,
                 payload |-> NoPayload]
           ELSE IF validation.payload.cid # cameraId /\ validation.payload.tid # tenantId
           THEN [statusCode |-> 403, code |-> "PLAYBACK_TOKEN_SCOPE_MISMATCH", payload |-> NoPayload]
           ELSE [statusCode |-> 200, code |-> "OK", payload |-> validation.payload]

\* the ApiDomainError thrown, or statusCode 200 with the parsed payload
parseAndValidatePlaybackToken(token, tenantId, cameraId, clock) ==
  IF token = TokenAbsent \/ token = TokenEmpty
  THEN [statusCode |-> 401, code |-> "PLAYBACK_TOKEN_MISSING", payload |-> NoPayload]
  ELSE LET validation == verifyTokenDetailed(token, streamTokenSecret, clock)
       IN  IF ~validation.ok
           THEN [statusCode |-> reasonMap(validation.reason).statusCode,
                 code |-> reasonMap(validation.reason).code,
                 payload |-> NoPayload]
           ELSE IF validation.payload.cid # cameraId \/ validation.payload.tid # tenantId
           THEN [statusCode |-> 403, code |-> "PLAYBACK_TOKEN_SCOPE_MISMATCH", payload |-> NoPayload]
           ELSE [statusCode |-> 200, code |-> "OK", payload |-> validation.payload]

\* what the test-suite's createPlaybackToken and the control plane produce
SignToken(payload, secret) == << EncodePayload(payload), Hmac(secret, EncodePayload(payload)) >>

-----------------------------------------------------------------------------
(* Stream registry *)

Null == "null"   \* JavaScript null, in a field that otherwise holds a string

\* StreamHealth; the sampled latencyMs, packetLossPct and jitterMs are random
\* numbers no handler reads, and are left out
buildHealth(connectivity, error) ==
  [connectivity |-> connectivity,
   error |-> IF connectivity = "online" THEN error
             ELSE IF connectivity = "degraded"
                  THEN (IF error = Null THEN "high jitter / packet loss" ELSE error)
                  ELSE (IF error = Null THEN "stream unreachable" ELSE error),
   checkedAt |-> nowIso]

\* a faulty variant: an entry in provisioning is probed like a ready one
runStreamProbe_ProvisioningKept(entry, roll) ==
  IF entry.status = "stopped"
  THEN [entry EXCEPT !.health = buildHealth("offline", "deprovisioned"), !.updatedAt = nowIso]
  ELSE [entry EXCEPT !.health = buildHealth(roll, Null), !.updatedAt = nowIso]

\* a faulty variant: a ready stream sampled offline is taken out of service
runStreamProbe_OfflineStops(entry, roll) ==
  IF entry.status = "stopped"
  THEN [entry EXCEPT !.health = buildHealth("offline", "deprovisioned"), !.updatedAt = nowIso]
  ELSE IF entry.status = "provisioning"
  THEN [entry EXCEPT !.status = "ready", !.health = buildHealth("online", Null), !.updatedAt = nowIso]
  ELSE IF roll = "offline"
  THEN [entry EXCEPT !.status = "stopped", !.health = buildHealth(roll, Null), !.updatedAt = nowIso]
  ELSE [entry EXCEPT !.health = buildHealth(roll, Null), !.updatedAt = nowIso]

\* a faulty variant: a stopped entry is probed like a ready one
runStreamProbe_StoppedProbed(entry, roll) ==
  IF entry.status = "provisioning"
  THEN [entry EXCEPT !.status = "ready", !.health = buildHealth("online", Null), !.updatedAt = nowIso]
  ELSE [entry EXCEPT !.health = buildHealth(roll, Null), !.updatedAt = nowIso]

\* roll: the band Math.random() fell in (offline < 0.07 <= degraded < 0.22 <= online)
runStreamProbe(entry, roll) ==
  IF entry.status = "stopped"
  THEN [entry EXCEPT !.health = buildHealth("offline", "deprovisioned"), !.updatedAt = nowIso]
  ELSE IF entry.status = "provisioning"
  THEN [entry EXCEPT !.status = "ready", !.health = buildHealth("online", Null), !.updatedAt = nowIso]
  ELSE [entry EXCEPT !.health = buildHealth(roll, Null), !.updatedAt = nowIso]

\* JSON.stringify of an array of strings: brackets, quoted elements, commas
RECURSIVE StringifyItems(_)
StringifyItems(arr) ==
  IF Len(arr) = 0 THEN ""
  ELSE IF Len(arr) = 1 THEN "\"" \o arr[1] \o "\""
  ELSE "\"" \o arr[1] \o "\"," \o StringifyItems(Tail(arr))

JSONstringify(arr) == "[" \o StringifyItems(arr) \o "]"

\* a faulty variant: targetProfiles compared as a set, so a reordering is no change
SameConfig_Unordered(existing, body) ==
  /\ existing.rtspUrl = body.rtspUrl
  /\ existing.source.transport = body.transport
  /\ existing.source.codecHint = body.codecHint
  /\ {existing.source.targetProfiles[i] : i \in DOMAIN existing.source.targetProfiles}
       = {body.targetProfiles[i] : i \in DOMAIN body.targetProfiles}

\* the idempotency comparison of POST /provision
SameConfig(existing, body) ==
  /\ existing.rtspUrl = body.rtspUrl
  /\ existing.source.transport = body.transport
  /\ existing.source.codecHint = body.codecHint
  /\ JSONstringify(existing.source.targetProfiles) = JSONstringify(body.targetProfiles)

\* a faulty variant: the version is not advanced on a reprovision
NextVersion_Kept(hasExisting, existingVersion) == IF hasExisting THEN existingVersion ELSE 1

\* version: existing ? existing.version + 1 : 1, on the entry read when the request arrived
NextVersion(hasExisting, existingVersion) == IF hasExisting THEN existingVersion + 1 ELSE 1

StreamEntry(tenantId, cameraId, body, version, status, health) ==
  [tenantId |-> tenantId,
   cameraId |-> cameraId,
   rtspUrl |-> body.rtspUrl,
   source |-> [transport |-> body.transport,
               codecHint |-> body.codecHint,
               targetProfiles |-> body.targetProfiles],
   version |-> version,
   status |-> status,
   health |-> health,
   updatedAt |-> nowIso]

NoResp == [op |-> "none"]

Idle == [pc |-> "idle"]

FreeSlots(slots) == {i \in DOMAIN slots : slots[i] = Idle}

FirstFree(slots) == CHOOSE i \in FreeSlots(slots) : \A j \in FreeSlots(slots) : i <= j

\* POST /provision up to its await: the idempotent answer, or the entry
\* written as provisioning and the handler suspended in ensureMockPlaylist
ProvisionRequest(tenantId, cameraId, body) ==
  LET key == streamKey(tenantId, cameraId)
      hasExisting == Has(streams, key)
  IN  /\ stoppedAck' = stoppedAck \ {key}
      /\ UNCHANGED <<streamSessions, files, now, playbacks, metricVars, sessionSweepCount, verified, configVars, loopVars, controlVars>>
      /\ \/ /\ hasExisting
            /\ SameConfig(streams[key], body)
            /\ lastResp' = [op |-> "provision", statusCode |-> 200, tenantId |-> tenantId,
                            cameraId |-> cameraId, body |-> body, data |-> streams[key],
                            reprovisioned |-> FALSE]
            /\ UNCHANGED <<streams, provisions>>
         \/ /\ ~(hasExisting /\ SameConfig(streams[key], body))
            /\ FreeSlots(provisions) # {}
            /\ LET existingVersion == IF hasExisting THEN streams[key].version ELSE 0
               IN  /\ streams' = MapSet(streams, key,
                        StreamEntry(tenantId, cameraId, body,
                                    NextVersion(hasExisting, existingVersion),
                                    "provisioning", buildHealth("degraded", "provisioning")))
                   /\ provisions' = [provisions EXCEPT ![FirstFree(provisions)] =
                        [pc |-> "segment", tenantId |-> tenantId, cameraId |-> cameraId,
                         body |-> body, hasExisting |-> hasExisting,
                         existingVersion |-> existingVersion]]
            /\ lastResp' = NoResp

\* ensureMockPlaylist: mkdir (recursive, no effect on the assets) and the
\* write of segment0.ts have completed; the write of index.m3u8 is issued
ProvisionWriteSegment(slot) ==
  /\ provisions[slot].pc = "segment"
  /\ files' = files \cup {<<provisions[slot].tenantId, provisions[slot].cameraId, "segment">>}
  /\ provisions' = [provisions EXCEPT ![slot].pc = "manifest"]
  /\ lastResp' = NoResp
  /\ UNCHANGED <<streams, streamSessions, now, playbacks, metricVars, sessionSweepCount,
                 stoppedAck, verified, configVars, loopVars, controlVars>>

\* index.m3u8 is written, ensureMockPlaylist returns, and the handler
\* stores the ready entry and answers
ProvisionFinish(slot) ==
  LET req == provisions[slot]
      key == streamKey(req.tenantId, req.cameraId)
      ready == StreamEntry(req.tenantId, req.cameraId, req.body,
                           NextVersion(req.hasExisting, req.existingVersion),
                           "ready", buildHealth("online", Null))
  IN  /\ req.pc = "manifest"
      /\ files' = files \cup {<<req.tenantId, req.cameraId, "manifest">>}
      /\ streams' = MapSet(streams, key, ready)
      /\ provisions' = [provisions EXCEPT ![slot] = Idle]
      /\ lastResp' = [op |-> "provision", statusCode |-> 200, tenantId |-> req.tenantId,
                      cameraId |-> req.cameraId, body |-> req.body, data |-> ready,
                      reprovisioned |-> TRUE]
      /\ UNCHANGED <<streamSessions, now, playbacks, metricVars, sessionSweepCount,
                     stoppedAck, verified, configVars, loopVars, controlVars>>

\* the status guard left out of a loop that closes sessions
SessionOpen_Any(session) == TRUE

SessionOpen(session) == session.status = "issued" \/ session.status = "active"

\* a faulty variant: the stop is stored as a new version of the entry
Deprovision_Bumps(tenantId, cameraId) ==
  LET key == streamKey(tenantId, cameraId)
  IN  /\ UNCHANGED <<files, now, provisions, playbacks, metricVars, sessionSweepCount, verified,
                     configVars, loopVars, controlVars>>
      /\ \/ /\ ~Has(streams, key)
            /\ lastResp' = [op |-> "deprovision", statusCode |-> 200, tenantId |-> tenantId,
                            cameraId |-> cameraId, removed |-> FALSE]
            /\ UNCHANGED <<streams, streamSessions, stoppedAck>>
         \/ /\ Has(streams, key)
            /\ streams' = [streams EXCEPT ![key] =
                 [@ EXCEPT !.status = "stopped",
                           !.version = @ + 1,
                           !.health = buildHealth("offline", "deprovisioned"),
                           !.updatedAt = nowIso]]
            /\ streamSessions' = [k \in DOMAIN streamSessions |->
                 IF /\ streamSessions[k].tenantId = tenantId
                    /\ streamSessions[k].cameraId = cameraId
                    /\ SessionOpen(streamSessions[k])
                 THEN [streamSessions[k] EXCEPT !.status = "ended", !.endedAt = nowIso,
                                                !.endReason = "deprovisioned"]
                 ELSE streamSessions[k]]
            /\ stoppedAck' = stoppedAck \cup {key}
            /\ lastResp' = [op |-> "deprovision", statusCode |-> 200, tenantId |-> tenantId,
                            cameraId |-> cameraId, removed |-> TRUE]

\* a faulty variant: the entry and its sessions are deleted
Deprovision_Deletes(tenantId, cameraId) ==
  LET key == streamKey(tenantId, cameraId)
  IN  /\ UNCHANGED <<files, now, provisions, playbacks, metricVars, sessionSweepCount, verified,
                     configVars, loopVars, controlVars>>
      /\ \/ /\ ~Has(streams, key)
            /\ lastResp' = [op |-> "deprovision", statusCode |-> 200, tenantId |-> tenantId,
                            cameraId |-> cameraId, removed |-> FALSE]
            /\ UNCHANGED <<streams, streamSessions, stoppedAck>>
         \/ /\ Has(streams, key)
            /\ streams' = [k \in DOMAIN streams \ {key} |-> streams[k]]
            /\ streamSessions' =
                 [k \in {j \in DOMAIN streamSessions :
                           ~(/\ streamSessions[j].tenantId = tenantId
                             /\ streamSessions[j].cameraId = cameraId)} |-> streamSessions[k]]
            /\ stoppedAck' = stoppedAck \cup {key}
            /\ lastResp' = [op |-> "deprovision", statusCode |-> 200, tenantId |-> tenantId,
                            cameraId |-> cameraId, removed |-> TRUE]

\* a faulty variant: the sessions are matched on the camera id alone
Deprovision_AnyTenant(tenantId, cameraId) ==
  LET key == streamKey(tenantId, cameraId)
  IN  /\ UNCHANGED <<files, now, provisions, playbacks, metricVars, sessionSweepCount, verified, configVars, loopVars, controlVars>>
      /\ \/ /\ ~Has(streams, key)
            /\ lastResp' = [op |-> "deprovision", statusCode |-> 200, tenantId |-> tenantId,
                            cameraId |-> cameraId, removed |-> FALSE]
            /\ UNCHANGED <<streams, streamSessions, stoppedAck>>
         \/ /\ Has(streams, key)
            /\ streams' = [streams EXCEPT ![key] =
                 [@ EXCEPT !.status = "stopped",
                           !.health = buildHealth("offline", "deprovisioned"),
                           !.updatedAt = nowIso]]
            /\ streamSessions' = [k \in DOMAIN streamSessions |->
                 IF /\ streamSessions[k].cameraId = cameraId
                    /\ SessionOpen(streamSessions[k])
                 THEN [streamSessions[k] EXCEPT !.status = "ended", !.endedAt = nowIso,
                                                !.endReason = "deprovisioned"]
                 ELSE streamSessions[k]]
            /\ stoppedAck' = stoppedAck \cup {key}
            /\ lastResp' = [op |-> "deprovision", statusCode |-> 200, tenantId |-> tenantId,
                            cameraId |-> cameraId, removed |-> TRUE]

\* POST /deprovision
Deprovision(tenantId, cameraId) ==
  LET key == streamKey(tenantId, cameraId)
  IN  /\ UNCHANGED <<files, now, provisions, playbacks, metricVars, sessionSweepCount, verified, configVars, loopVars, controlVars>>
      /\ \/ /\ ~Has(streams, key)
            /\ lastResp' = [op |-> "deprovision", statusCode |-> 200, tenantId |-> tenantId,
                            cameraId |-> cameraId, removed |-> FALSE]
            /\ UNCHANGED <<streams, streamSessions, stoppedAck>>
         \/ /\ Has(streams, key)
            /\ streams' = [streams EXCEPT ![key] =
                 [@ EXCEPT !.status = "stopped",
                           !.health = buildHealth("offline", "deprovisioned"),
                           !.updatedAt = nowIso]]
            /\ streamSessions' = [k \in DOMAIN streamSessions |->
                 IF /\ streamSessions[k].tenantId = tenantId
                    /\ streamSessions[k].cameraId = cameraId
                    /\ SessionOpen(streamSessions[k])
                 THEN [streamSessions[k] EXCEPT !.status = "ended", !.endedAt = nowIso,
                                                !.endReason = "deprovisioned"]
                 ELSE streamSessions[k]]
            /\ stoppedAck' = stoppedAck \cup {key}
            /\ lastResp' = [op |-> "deprovision", statusCode |-> 200, tenantId |-> tenantId,
                            cameraId |-> cameraId, removed |-> TRUE]

Connectivity == {"online", "degraded", "offline"}

NullTimer == "null"      \* JavaScript null, in a variable that otherwise holds a timer
Timeout == "Timeout"     \* the handle of a live timer

\* setInterval and clearInterval on the runtime's timers of one callback
setInterval(live, callback) == [live EXCEPT ![callback] = @ + 1]

clearInterval(live, callback) == [live EXCEPT ![callback] = @ - 1]

\* startProbeLoop and startSessionSweepLoop: the handle and the live timers after
startProbeLoop(timer, live) ==
  IF timer # NullTimer THEN <<timer, live>> ELSE <<Timeout, setInterval(live, "probe")>>

startSessionSweepLoop(timer, live) ==
  IF timer # NullTimer THEN <<timer, live>> ELSE <<Timeout, setInterval(live, "sweep")>>

\* a faulty variant: the handle is dropped and the timer is left running
stopProbeLoop_Dropped(timer, live) == <<NullTimer, live>>

\* stopProbeLoop and stopSessionSweepLoop
stopProbeLoop(timer, live) ==
  IF timer = NullTimer THEN <<timer, live>> ELSE <<NullTimer, clearInterval(live, "probe")>>

stopSessionSweepLoop(timer, live) ==
  IF timer = NullTimer THEN <<timer, live>> ELSE <<NullTimer, clearInterval(live, "sweep")>>

\* buildApp: both loops are started on no timers
StartLoops ==
  LET probe == startProbeLoop(NullTimer, [probe |-> 0, sweep |-> 0])
      sweep == startSessionSweepLoop(NullTimer, probe[2])
  IN  /\ probeTimer = probe[1]
      /\ sessionSweepTimer = sweep[1]
      /\ intervals = sweep[2]

\* the onClose hook, run once when the app closes
Close ==
  LET probe == stopProbeLoop(probeTimer, intervals)
      sweep == stopSessionSweepLoop(sessionSweepTimer, probe[2])
  IN  /\ ~(probeTimer = NullTimer /\ sessionSweepTimer = NullTimer)
      /\ probeTimer' = probe[1]
      /\ sessionSweepTimer' = sweep[1]
      /\ intervals' = sweep[2]
      /\ lastResp' = NoResp
      /\ UNCHANGED <<streams, streamSessions, files, now, provisions, playbacks, metricVars,
                     sessionSweepCount, stoppedAck, verified, configVars, controlVars>>

\* the probe callback: every entry is replaced by its probe
ProbeCallback ==
  /\ \E rolls \in [DOMAIN streams -> Connectivity] :
       streams' = [k \in DOMAIN streams |-> runStreamProbe(streams[k], rolls[k])]
  /\ lastResp' = NoResp
  /\ UNCHANGED <<streamSessions, files, now, provisions, playbacks, metricVars,
                 sessionSweepCount, stoppedAck, verified, configVars, loopVars, controlVars>>

\* one firing of a live probe timer
ProbeTick == intervals["probe"] > 0 /\ ProbeCallback

\* GET /health (storageDir left out)
health == [ok |-> TRUE, streams |-> Cardinality(DOMAIN streams),
           sessions |-> Cardinality(DOMAIN streamSessions)]

-----------------------------------------------------------------------------
(* Session manager *)

NullTime == [iso |-> -1]   \* JavaScript null, in a field that otherwise holds a timestamp

SessionClosed(session) == session.status = "ended" \/ session.status = "expired"

\* the closed-session guard testing one terminal status only
UpsertThrows_EndedOnly(sessionKey) ==
  Has(streamSessions, sessionKey) /\ streamSessions[sessionKey].status = "ended"

\* upsertActiveSession: whether it throws PLAYBACK_SESSION_CLOSED
UpsertThrows(sessionKey) ==
  Has(streamSessions, sessionKey) /\ SessionClosed(streamSessions[sessionKey])

\* a faulty variant: issuedAt is taken from the token of every request
UpsertEntry_Reissued(tenantId, cameraId, payload) ==
  LET sessionKey == streamSessionKey(tenantId, cameraId, payload.sid)
      existing == Has(streamSessions, sessionKey)
  IN  [tenantId |-> tenantId,
       cameraId |-> cameraId,
       sid |-> payload.sid,
       sub |-> payload.sub,
       status |-> "active",
       issuedAt |-> ToISOString(payload.iat * MsPerSecond),
       activatedAt |-> IF existing /\ streamSessions[sessionKey].activatedAt # NullTime
                       THEN streamSessions[sessionKey].activatedAt ELSE nowIso,
       endedAt |-> NullTime,
       expiresAt |-> ToISOString(payload.exp * MsPerSecond),
       lastSeenAt |-> nowIso,
       endReason |-> Null]

\* upsertActiveSession: the entry it stores
UpsertEntry(tenantId, cameraId, payload) ==
  LET sessionKey == streamSessionKey(tenantId, cameraId, payload.sid)
      existing == Has(streamSessions, sessionKey)
      issuedAt == ToISOString(payload.iat * MsPerSecond)
      expiresAt == ToISOString(payload.exp * MsPerSecond)
  IN  [tenantId |-> tenantId,
       cameraId |-> cameraId,
       sid |-> payload.sid,
       sub |-> payload.sub,
       status |-> "active",
       issuedAt |-> IF existing THEN streamSessions[sessionKey].issuedAt ELSE issuedAt,
       activatedAt |-> IF existing /\ streamSessions[sessionKey].activatedAt # NullTime
                       THEN streamSessions[sessionKey].activatedAt ELSE nowIso,
       endedAt |-> NullTime,
       expiresAt |-> expiresAt,
       lastSeenAt |-> nowIso,
       endReason |-> Null]

\* a faulty variant: a session whose expiry is the instant of the sweep is kept
SweepExpires_Strict(session) == SessionOpen(session) /\ DateParse(session.expiresAt) < now

SweepExpires(session) == SessionOpen(session) /\ DateParse(session.expiresAt) <= now

SweepEnds(session) ==
  /\ ~SweepExpires(session)
  /\ session.status = "active"
  /\ now - DateParse(session.lastSeenAt) > sessionIdleTtlMs

\* a faulty variant: the idle test comes before the expiry test
SweepOne_IdleFirst(session) ==
  IF session.status = "active" /\ now - DateParse(session.lastSeenAt) > sessionIdleTtlMs
  THEN [session EXCEPT !.status = "ended", !.endedAt = nowIso, !.endReason = "idle_timeout"]
  ELSE IF SweepExpires(session)
  THEN [session EXCEPT !.status = "expired", !.endedAt = nowIso, !.endReason = "token_expired"]
  ELSE session

\* one iteration of the loop of sweepSessions
SweepOne(session) ==
  IF SweepExpires(session)
  THEN [session EXCEPT !.status = "expired", !.endedAt = nowIso, !.endReason = "token_expired"]
  ELSE IF SweepEnds(session)
  THEN [session EXCEPT !.status = "ended", !.endedAt = nowIso, !.endReason = "idle_timeout"]
  ELSE session

\* sweepSessions: the map after the pass and the counts it returns
Swept == [k \in DOMAIN streamSessions |-> SweepOne(streamSessions[k])]

\* a faulty variant: the idle test is not skipped for a session just expired,
\* which is then counted twice
SweepCounts_NoContinue ==
  [expired |-> Cardinality({k \in DOMAIN streamSessions : SweepExpires(streamSessions[k])}),
   ended |-> Cardinality({k \in DOMAIN streamSessions :
                            /\ streamSessions[k].status = "active"
                            /\ now - DateParse(streamSessions[k].lastSeenAt) > sessionIdleTtlMs})]

SweepCounts ==
  [expired |-> Cardinality({k \in DOMAIN streamSessions : SweepExpires(streamSessions[k])}),
   ended |-> Cardinality({k \in DOMAIN streamSessions : SweepEnds(streamSessions[k])})]

\* the sweep callback
SweepCallback ==
  /\ streamSessions' = Swept
  /\ sessionSweepCount' = sessionSweepCount + 1
  /\ lastResp' = NoResp
  /\ UNCHANGED <<streams, files, now, provisions, playbacks, metricVars, stoppedAck, verified, configVars, loopVars, controlVars>>

\* one firing of a live sweep timer
SweepTimer == intervals["sweep"] > 0 /\ SweepCallback

\* POST /sessions/sweep
SweepRequest ==
  /\ streamSessions' = Swept
  /\ sessionSweepCount' = sessionSweepCount + 1
  /\ lastResp' = [op |-> "sweep", statusCode |-> 200, data |-> SweepCounts]
  /\ UNCHANGED <<streams, files, now, provisions, playbacks, metricVars, stoppedAck, verified, configVars, loopVars, controlVars>>

\* GET /sessions.  A query is a record of the filters the request carries:
\* a filter the request leaves out is no field of it.
QueryFields == {"tenantId", "cameraId", "status", "sid"}

\* q.f ? session.f === q.f : true  -- a filter that is left out, and one
\* whose value is the empty string, are both falsy
FilterOn(q, f, session) ==
  IF f \in DOMAIN q /\ q[f] # "" THEN session[f] = q[f] ELSE TRUE

\* a faulty variant: the filters are alternatives
Matches_Either(q, session) ==
  \/ FilterOn(q, "tenantId", session) /\ "tenantId" \in DOMAIN q
  \/ FilterOn(q, "cameraId", session) /\ "cameraId" \in DOMAIN q
  \/ FilterOn(q, "status", session) /\ "status" \in DOMAIN q
  \/ FilterOn(q, "sid", session) /\ "sid" \in DOMAIN q
  \/ DOMAIN q = {}

\* the four chained filters
Matches(q, session) ==
  /\ FilterOn(q, "tenantId", session)
  /\ FilterOn(q, "cameraId", session)
  /\ FilterOn(q, "status", session)
  /\ FilterOn(q, "sid", session)

\* a faulty variant: the oldest first
byLastSeenAt_Ascending(a, b) ==
  IF DateParse(a.lastSeenAt) > DateParse(b.lastSeenAt) THEN 1 ELSE -1

\* the sort's comparator, (a, b) => (a.lastSeenAt < b.lastSeenAt ? 1 : -1).
\* The two are ISO-8601 strings of one width, which compare as their
\* instants do.
byLastSeenAt(a, b) ==
  IF DateParse(a.lastSeenAt) < DateParse(b.lastSeenAt) THEN 1 ELSE -1

\* Array.prototype.sort by insertion: an element moves left past those the
\* comparator puts after it
RECURSIVE SortInsert(_, _)
SortInsert(sorted, x) ==
  IF sorted = << >> \/ byLastSeenAt(sorted[Len(sorted)], x) <= 0
  THEN Append(sorted, x)
  ELSE Append(SortInsert(SubSeq(sorted, 1, Len(sorted) - 1), x), sorted[Len(sorted)])

RECURSIVE Sort(_)
Sort(seq) ==
  IF seq = << >> THEN << >>
  ELSE SortInsert(Sort(SubSeq(seq, 1, Len(seq) - 1)), seq[Len(seq)])

\* the orders in which a Map's values() may come: the keys' insertion order
ValueOrders(map) ==
  {order \in [1..Cardinality(DOMAIN map) -> DOMAIN map] :
     \A i, j \in DOMAIN order : i # j => order[i] # order[j]}

SessionsRequest(q) ==
  /\ \E order \in ValueOrders(streamSessions) :
       LET values == [i \in DOMAIN order |-> streamSessions[order[i]]]
           data == Sort(SelectSeq(values, LAMBDA session : Matches(q, session)))
       IN  lastResp' = [op |-> "sessions", statusCode |-> 200, query |-> q,
                        data |-> data, total |-> Len(data)]
  /\ UNCHANGED <<streams, streamSessions, files, now, provisions, playbacks, metricVars,
                 sessionSweepCount, stoppedAck, verified, configVars, loopVars, controlVars>>

\* the wall clock advances
Tick(step) ==
  /\ now' = now + step
  /\ lastResp' = NoResp
  /\ UNCHANGED <<streams, streamSessions, files, provisions, playbacks, metricVars,
                 sessionSweepCount, stoppedAck, verified, configVars, loopVars, controlVars>>

-----------------------------------------------------------------------------
(* Playback *)

\* metricKey: the labels sorted by name, "name=value" joined by "|"
RequestKey(tenantId, cameraId, asset, result) ==
  "asset=" \o asset \o "|camera_id=" \o cameraId \o "|result=" \o result \o "|tenant_id=" \o tenantId

ErrorKey(tenantId, cameraId, asset, code) ==
  "asset=" \o asset \o "|camera_id=" \o cameraId \o "|code=" \o code \o "|tenant_id=" \o tenantId

RetryKey(tenantId, cameraId, asset) ==
  "asset=" \o asset \o "|camera_id=" \o cameraId \o "|tenant_id=" \o tenantId

incCounter(store, key) == MapSet(store, key, (IF Has(store, key) THEN store[key] ELSE 0) + 1)

RECURSIVE SumOver(_, _)
SumOver(store, keys) ==
  IF keys = {} THEN 0
  ELSE LET k == CHOOSE x \in keys : TRUE
       IN  store[k] + SumOver(store, keys \ {k})

Total(store) == SumOver(store, DOMAIN store)

InFlight(slots) == Cardinality(DOMAIN slots \ FreeSlots(slots))

\* assertStreamReady: the ApiDomainError it throws, or 200
assertStreamReady(key) ==
  IF ~Has(streams, key) THEN [statusCode |-> 404, code |-> "PLAYBACK_STREAM_NOT_FOUND"]
  ELSE IF streams[key].status = "provisioning"
  THEN [statusCode |-> 409, code |-> "PLAYBACK_STREAM_NOT_READY"]
  ELSE IF streams[key].status = "stopped"
  THEN [statusCode |-> 410, code |-> "PLAYBACK_STREAM_STOPPED"]
  ELSE [statusCode |-> 200, code |-> "OK"]

\* the session observed before the stream is looked up
PlaybackChecks_SessionFirst(tenantId, cameraId, token) ==
  LET parsed == parseAndValidatePlaybackToken(token, tenantId, cameraId, now)
      ready == assertStreamReady(streamKey(tenantId, cameraId))
  IN  IF parsed.statusCode # 200 THEN parsed
      ELSE IF UpsertThrows(streamSessionKey(tenantId, cameraId, parsed.payload.sid))
      THEN [statusCode |-> 401, code |-> "PLAYBACK_SESSION_CLOSED", payload |-> NoPayload]
      ELSE IF ready.statusCode # 200
      THEN [statusCode |-> ready.statusCode, code |-> ready.code, payload |-> NoPayload]
      ELSE parsed

\* the handler up to readWithRetry: the error thrown by the first failing
\* step, or 200 with the token's payload
PlaybackChecks(tenantId, cameraId, token) ==
  LET parsed == parseAndValidatePlaybackToken(token, tenantId, cameraId, now)
      ready == assertStreamReady(streamKey(tenantId, cameraId))
  IN  IF parsed.statusCode # 200 THEN parsed
      ELSE IF ready.statusCode # 200
      THEN [statusCode |-> ready.statusCode, code |-> ready.code, payload |-> NoPayload]
      ELSE IF UpsertThrows(streamSessionKey(tenantId, cameraId, parsed.payload.sid))
      THEN [statusCode |-> 401, code |-> "PLAYBACK_SESSION_CLOSED", payload |-> NoPayload]
      ELSE parsed

PlaybackResp(tenantId, cameraId, asset, token, statusCode, code) ==
  [op |-> "playback", tenantId |-> tenantId, cameraId |-> cameraId, asset |-> asset,
   token |-> token, statusCode |-> statusCode, code |-> code]

\* a faulty variant: the thrown error is not recognised as an ApiDomainError
CountError_Internal(tenantId, cameraId, asset, code) ==
  /\ playbackRequestCounters' =
       incCounter(playbackRequestCounters, RequestKey(tenantId, cameraId, asset, "error"))
  /\ playbackErrorCounters' =
       incCounter(playbackErrorCounters,
                  ErrorKey(tenantId, cameraId, asset, "INTERNAL_SERVER_ERROR"))
  /\ UNCHANGED playbackReadRetryCounters

\* withPlaybackMetrics, catch branch
CountError(tenantId, cameraId, asset, code) ==
  /\ playbackRequestCounters' =
       incCounter(playbackRequestCounters, RequestKey(tenantId, cameraId, asset, "error"))
  /\ playbackErrorCounters' =
       incCounter(playbackErrorCounters, ErrorKey(tenantId, cameraId, asset, code))
  /\ UNCHANGED playbackReadRetryCounters

\* a faulty variant: the session is upserted before the stream is checked
PlaybackRequest_UpsertFirst(tenantId, cameraId, token, asset) ==
  LET checks == PlaybackChecks(tenantId, cameraId, token)
      parsed == parseAndValidatePlaybackToken(token, tenantId, cameraId, now)
  IN  /\ UNCHANGED <<streams, files, now, provisions, sessionSweepCount, stoppedAck, verified, configVars, loopVars, controlVars>>
      /\ \/ /\ checks.statusCode # 200
            /\ CountError(tenantId, cameraId, asset, checks.code)
            /\ lastResp' = PlaybackResp(tenantId, cameraId, asset, token,
                                        checks.statusCode, checks.code)
            /\ streamSessions' =
                 IF /\ parsed.statusCode = 200
                    /\ ~UpsertThrows(streamSessionKey(tenantId, cameraId, parsed.payload.sid))
                 THEN MapSet(streamSessions,
                             streamSessionKey(tenantId, cameraId, parsed.payload.sid),
                             UpsertEntry(tenantId, cameraId, parsed.payload))
                 ELSE streamSessions
            /\ UNCHANGED playbacks
         \/ /\ checks.statusCode = 200
            /\ FreeSlots(playbacks) # {}
            /\ streamSessions' =
                 MapSet(streamSessions,
                        streamSessionKey(tenantId, cameraId, checks.payload.sid),
                        UpsertEntry(tenantId, cameraId, checks.payload))
            /\ playbacks' = [playbacks EXCEPT ![FirstFree(playbacks)] =
                 [pc |-> "read", tenantId |-> tenantId, cameraId |-> cameraId,
                  asset |-> asset, token |-> token, attempt |-> 0,
                  outcomes |-> << >>, waits |-> << >>,
                  retriesBefore |->
                    LET key == RetryKey(tenantId, cameraId, asset)
                    IN  IF Has(playbackReadRetryCounters, key)
                        THEN playbackReadRetryCounters[key] ELSE 0]]
            /\ lastResp' = NoResp
            /\ UNCHANGED metricVars

\* GET /playback/:tenantId/:cameraId/index.m3u8 (asset "manifest") and
\* .../segment0.ts (asset "segment"), up to the first read of the asset
PlaybackRequest(tenantId, cameraId, token, asset) ==
  LET checks == PlaybackChecks(tenantId, cameraId, token)
  IN  /\ UNCHANGED <<streams, files, now, provisions, sessionSweepCount, stoppedAck, verified, configVars, loopVars, controlVars>>
      /\ \/ /\ checks.statusCode # 200
            /\ CountError(tenantId, cameraId, asset, checks.code)
            /\ lastResp' = PlaybackResp(tenantId, cameraId, asset, token,
                                        checks.statusCode, checks.code)
            /\ UNCHANGED <<streamSessions, playbacks>>
         \/ /\ checks.statusCode = 200
            /\ FreeSlots(playbacks) # {}
            /\ streamSessions' =
                 MapSet(streamSessions,
                        streamSessionKey(tenantId, cameraId, checks.payload.sid),
                        UpsertEntry(tenantId, cameraId, checks.payload))
            /\ playbacks' = [playbacks EXCEPT ![FirstFree(playbacks)] =
                 [pc |-> "read", tenantId |-> tenantId, cameraId |-> cameraId,
                  asset |-> asset, token |-> token, attempt |-> 0,
                  outcomes |-> << >>, waits |-> << >>,
                  retriesBefore |->
                    LET key == RetryKey(tenantId, cameraId, asset)
                    IN  IF Has(playbackReadRetryCounters, key)
                        THEN playbackReadRetryCounters[key] ELSE 0]]
            /\ lastResp' = NoResp
            /\ UNCHANGED metricVars

NotFoundCode(asset) ==
  IF asset = "manifest" THEN "PLAYBACK_MANIFEST_NOT_FOUND" ELSE "PLAYBACK_SEGMENT_NOT_FOUND"

\* Math.max and Math.min of two numbers
MathMax(a, b) == IF a >= b THEN a ELSE b

MathMin(a, b) == IF a <= b THEN a ELSE b

RECURSIVE Pow2(_)
Pow2(n) == IF n = 0 THEN 1 ELSE 2 * Pow2(n - 1)

\* buildApp: the retry configuration, read from the environment and clamped
RetryConfig(retriesEnv, baseMsEnv, maxMsEnv) ==
  /\ playbackReadRetries = MathMax(0, retriesEnv)
  /\ playbackReadRetryBaseMs = MathMax(0, baseMsEnv)
  /\ playbackReadRetryMaxMs = MathMax(playbackReadRetryBaseMs, maxMsEnv)

\* a faulty variant: the wait is not capped
waitMs_Uncapped(attempt) == playbackReadRetryBaseMs * Pow2(attempt - 1)

\* readWithRetry: the wait before the retry that brings the count to `attempt`
waitMs(attempt) ==
  MathMin(playbackReadRetryBaseMs * Pow2(attempt - 1), playbackReadRetryMaxMs)

\* fs.readFile on the asset's path: "OK", or the errno code it rejects with.
\* A 4-tuple <<tenantId, cameraId, asset, code>> in files is a path whose
\* reads currently reject with that code whether or not the file exists.
ReadOutcome(tenantId, cameraId, asset) ==
  LET faults == {f \in files : Len(f) = 4 /\ SubSeq(f, 1, 3) = <<tenantId, cameraId, asset>>}
  IN  IF faults # {} THEN (CHOOSE f \in faults : TRUE)[4]
      ELSE IF <<tenantId, cameraId, asset>> \in files THEN "OK"
      ELSE "ENOENT"

\* a faulty variant: only a missing file is retried
retryable_EnoentOnly(code) == code = "ENOENT"

retryable(code) == code = "ENOENT" \/ code = "EAGAIN" \/ code = "EBUSY"

\* a faulty variant: the budget is compared one attempt late
RetryAllowed_OneMore(code, attempt) == retryable(code) /\ ~(attempt > playbackReadRetries)

\* readWithRetry, catch branch: the error is not thrown on
RetryAllowed(code, attempt) == ~(~retryable(code) \/ attempt >= playbackReadRetries)

\* readWithRetry: one call of the reader completes; the answer is sent, or the
\* retry is counted and the handler sleeps for waitMs before the next call
PlaybackRead(slot) ==
  LET req == playbacks[slot]
      outcome == ReadOutcome(req.tenantId, req.cameraId, req.asset)
  IN  /\ req.pc = "read"
      /\ UNCHANGED <<streams, streamSessions, files, now, provisions, sessionSweepCount,
                     stoppedAck, verified, configVars, loopVars, controlVars>>
      /\ \/ /\ outcome = "OK"
            /\ playbackRequestCounters' =
                 incCounter(playbackRequestCounters,
                            RequestKey(req.tenantId, req.cameraId, req.asset, "ok"))
            /\ UNCHANGED <<playbackErrorCounters, playbackReadRetryCounters>>
            /\ playbacks' = [playbacks EXCEPT ![slot] = Idle]
            /\ lastResp' = PlaybackResp(req.tenantId, req.cameraId, req.asset, req.token,
                                        200, "OK")
         \/ /\ outcome # "OK"
            /\ ~RetryAllowed(outcome, req.attempt)
            /\ CountError(req.tenantId, req.cameraId, req.asset, NotFoundCode(req.asset))
            /\ playbacks' = [playbacks EXCEPT ![slot] = Idle]
            /\ lastResp' = PlaybackResp(req.tenantId, req.cameraId, req.asset, req.token,
                                        404, NotFoundCode(req.asset))
         \/ /\ outcome # "OK"
            /\ RetryAllowed(outcome, req.attempt)
            /\ playbackReadRetryCounters' =
                 incCounter(playbackReadRetryCounters,
                            RetryKey(req.tenantId, req.cameraId, req.asset))
            /\ UNCHANGED <<playbackRequestCounters, playbackErrorCounters>>
            /\ playbacks' = [playbacks EXCEPT ![slot].attempt = req.attempt + 1,
                                              ![slot].outcomes = Append(req.outcomes, outcome),
                                              ![slot].waits =
                                                Append(req.waits, waitMs(req.attempt + 1))]
            /\ lastResp' = NoResp

-----------------------------------------------------------------------------
(* Inputs *)

Body(rtspUrl, transport, codecHint, targetProfiles) ==
  [rtspUrl |-> rtspUrl, transport |-> transport, codecHint |-> codecHint,
   targetProfiles |-> targetProfiles]

BodyA == Body("rtsp://a", "auto", "unknown", <<"main", "sub">>)
BodyProfiles == Body("rtsp://a", "auto", "unknown", <<"sub", "main">>)
BodyUrl == Body("rtsp://b", "auto", "unknown", <<"main", "sub">>)
BodyTransport == Body("rtsp://a", "tcp", "unknown", <<"main", "sub">>)
BodyCodec == Body("rtsp://a", "auto", "h264", <<"main", "sub">>)

Payload(tid, cid, sid, exp) ==
  [sub |-> "user", tid |-> tid, cid |-> cid, sid |-> sid, exp |-> exp, iat |-> 1, v |-> 1]

FarExp == 9     \* a token expiry (epoch seconds) the clock never reaches
NearExp == 2    \* a token expiry (epoch seconds) the clock passes
PastExp == 1    \* a token expiry (epoch seconds) already passed at start-up

TokenGood == SignToken(Payload("t1", "c1", "s1", FarExp), streamTokenSecret)
TokenShort == SignToken(Payload("t1", "c1", "s1", NearExp), streamTokenSecret)
TokenOtherTenant == SignToken(Payload("t2", "c1", "s1", FarExp), streamTokenSecret)
TokenForged == << EncodePayload(Payload("t1", "c1", "s1", FarExp)), ForgedPart >>
TokenTenant2 == SignToken(Payload("t2", "c1", "s2", FarExp), streamTokenSecret)
TokenOtherCamera == SignToken(Payload("t1", "c2", "s1", FarExp), streamTokenSecret)
TokenStale == SignToken(Payload("t1", "c1", "s1", PastExp), streamTokenSecret)
TokenRenewed ==
  SignToken([Payload("t1", "c1", "s1", FarExp) EXCEPT !.iat = 2], streamTokenSecret)
TokenOtherSid == SignToken(Payload("t1", "c1", "s2", FarExp), streamTokenSecret)
TokenColonSid == SignToken(Payload("t1", "c1", "c1:s1", FarExp), streamTokenSecret)
TokenColonTenant == SignToken(Payload("t1:c1", "c1", "s1", FarExp), streamTokenSecret)

-----------------------------------------------------------------------------
(* The control plane's stream sessions (apps/api).  A handler is taken     *)
(* through from its first query to its answer with no other request in     *)
(* between; the token, the audit log and the call to the gateway, which    *)
(* do not touch a session's status, are left out.                          *)

\* the table of canTransitionStreamSession
allowed ==
  [requested |-> {"issued", "ended", "expired"},
   issued |-> {"active", "ended", "expired"},
   active |-> {"ended", "expired"},
   ended |-> {},
   expired |-> {}]

canTransitionStreamSession(from, to) == to \in allowed[from]

\* the rows of prisma.streamSession and of prisma.streamSessionTransition
Database == [rows |-> streamSessionRows, transitions |-> streamSessionTransitions]

appendStreamSessionTransition(db, id, fromStatus, toStatus, event) ==
  [db EXCEPT !.transitions =
     Append(@, [streamSessionId |-> id, fromStatus |-> fromStatus,
                toStatus |-> toStatus, event |-> event])]

\* transitionStreamSession: what it throws, or Null, and the tables it leaves
transitionStreamSession(db, id, toStatus, event, endReason) ==
  IF ~Has(db.rows, id) THEN [error |-> "STREAM_SESSION_NOT_FOUND", db |-> db]
  ELSE LET fromStatus == db.rows[id].status
       IN  IF fromStatus # toStatus /\ ~canTransitionStreamSession(fromStatus, toStatus)
           THEN [error |-> "INVALID_STREAM_SESSION_TRANSITION", db |-> db]
           ELSE [error |-> Null,
                 db |-> appendStreamSessionTransition(
                   [db EXCEPT !.rows[id] =
                      [@ EXCEPT !.status = toStatus,
                                !.activatedAt = IF toStatus = "active" THEN nowIso ELSE @,
                                !.endedAt = IF toStatus \in {"ended", "expired"} THEN nowIso ELSE @,
                                !.endReason = IF toStatus = "ended" THEN endReason ELSE @]],
                   id, fromStatus, toStatus, event)]

\* the rows expireStaleStreamSessions finds
Stale(db) ==
  {id \in DOMAIN db.rows :
     /\ db.rows[id].status \in {"requested", "issued", "active"}
     /\ db.rows[id].expiresAt < now}

\* expireStaleStreamSessions: the stale rows, in the order of their
\* creation, are taken to expired
RECURSIVE expireFrom(_, _)
expireFrom(db, id) ==
  IF id > Cardinality(DOMAIN db.rows) THEN db
  ELSE expireFrom(IF id \in Stale(db)
                  THEN transitionStreamSession(db, id, "expired", "stream.expired", Null).db
                  ELSE db,
                  id + 1)

expireStaleStreamSessions(db) == expireFrom(db, 1)

\* the lifetime of a stream token, 1000 * 60 * 5
StreamTokenTtlMs == 300000

\* what the error handler answers for a thrown error
ApiStatusCode(error) ==
  CASE error = Null -> 200
    [] error = "STREAM_SESSION_NOT_FOUND" -> 404
    [] error = "INVALID_STREAM_SESSION_TRANSITION" -> 400

ApiAnswer(op, id, result) ==
  /\ streamSessionRows' = result.db.rows
  /\ streamSessionTransitions' = result.db.transitions
  /\ apiResp' = [op |-> op, id |-> id, statusCode |-> ApiStatusCode(result.error)]
  /\ UNCHANGED <<streams, streamSessions, files, now, provisions, playbacks, metricVars,
                 sessionSweepCount, lastResp, stoppedAck, verified, configVars, loopVars,
                 loginVars, streamRequests, cameraVars>>

\* POST /cameras/:id/stream-token: a session is created requested and
\* taken to issued
StreamTokenRequest ==
  LET swept == expireStaleStreamSessions(Database)
      id == Cardinality(DOMAIN swept.rows) + 1
      requested == [status |-> "requested", expiresAt |-> now + StreamTokenTtlMs,
                    issuedAt |-> nowIso, activatedAt |-> NullTime, endedAt |-> NullTime,
                    endReason |-> Null]
      created == appendStreamSessionTransition(
                   [swept EXCEPT !.rows = [i \in DOMAIN @ \cup {id} |->
                                             IF i = id THEN requested ELSE @[i]]],
                   id, Null, "requested", "stream.requested")
  IN  ApiAnswer("stream-token", id,
                transitionStreamSession(created, id, "issued", "stream.issued", Null))

\* POST /stream-sessions/:id/activate
ActivateRequest(id) ==
  ApiAnswer("activate", id,
            transitionStreamSession(expireStaleStreamSessions(Database), id, "active",
                                    "stream.activated", Null))

\* body.reason ?? "ended by user action"
EndReason(reason) == IF reason = Null THEN "ended by user action" ELSE reason

\* POST /stream-sessions/:id/end
EndRequest(id, reason) ==
  ApiAnswer("end", id,
            transitionStreamSession(expireStaleStreamSessions(Database), id, "ended",
                                    "stream.ended", EndReason(reason)))

\* Number(process.env.LOGIN_RATE_LIMIT_MAX ?? 20) and
\* Number(process.env.LOGIN_RATE_LIMIT_WINDOW_MS ?? 60_000)
loginRateLimitMax == LoginRateLimitMaxEnv

loginRateLimitWindowMs == LoginRateLimitWindowMsEnv

\* request.headers["x-forwarded-for"] is absent (Null) or a list of
\* addresses, request.ip the address of the socket: the client key is the
\* first address of the list, the socket's when that is missing or empty
ClientKey(forwardedFor, ip) ==
  LET first == IF forwardedFor = Null \/ forwardedFor = << >> THEN "" ELSE forwardedFor[1]
  IN  IF first # "" THEN first
      ELSE IF ip # "" THEN ip
      ELSE "unknown"

\* a faulty variant: the count is compared after the attempt is let through
checkLoginRateLimit_CountAfter(buckets, key, max, windowMs, clock) ==
  IF ~Has(buckets, key) \/ clock > buckets[key].resetAt
  THEN [error |-> Null,
        buckets |-> [k \in DOMAIN buckets \cup {key} |->
                       IF k = key THEN [count |-> 1, resetAt |-> clock + windowMs]
                       ELSE buckets[k]]]
  ELSE IF buckets[key].count > max
       THEN [error |-> "TOO_MANY_REQUESTS", buckets |-> buckets]
       ELSE [error |-> Null, buckets |-> [buckets EXCEPT ![key].count = @ + 1]]

\* checkLoginRateLimit: what it throws, or Null, and the buckets it leaves
checkLoginRateLimit(buckets, key, max, windowMs, clock) ==
  IF ~Has(buckets, key) \/ clock > buckets[key].resetAt
  THEN [error |-> Null,
        buckets |-> [k \in DOMAIN buckets \cup {key} |->
                       IF k = key THEN [count |-> 1, resetAt |-> clock + windowMs]
                       ELSE buckets[k]]]
  ELSE IF buckets[key].count >= max
       THEN [error |-> "TOO_MANY_REQUESTS", buckets |-> buckets]
       ELSE [error |-> Null, buckets |-> [buckets EXCEPT ![key].count = @ + 1]]

\* POST /auth/login: the rate limit first, then the credentials
LoginRequest(forwardedFor, ip, credentialsOk) ==
  LET key == ClientKey(forwardedFor, ip)
      limit == checkLoginRateLimit(loginBuckets, key, loginRateLimitMax,
                                   loginRateLimitWindowMs, now)
      processed == limit.error = Null
  IN  /\ loginBuckets' = limit.buckets
      /\ loginAttempts' = Append(loginAttempts, [key |-> key, at |-> now, processed |-> processed])
      /\ apiResp' = [op |-> "login", id |-> key,
                     statusCode |-> IF ~processed THEN 429
                                    ELSE IF credentialsOk THEN 200 ELSE 401,
                     code |-> IF ~processed THEN "TOO_MANY_REQUESTS"
                              ELSE IF credentialsOk THEN Null ELSE "UNAUTHORIZED"]
      /\ UNCHANGED <<streams, streamSessions, files, now, provisions, playbacks, metricVars,
                     sessionSweepCount, lastResp, stoppedAck, verified, configVars, loopVars,
                     streamSessionRows, streamSessionTransitions, streamRequests,
                     cameraVars>>

(* The same handlers taken await by await.  A handler first asks for the   *)
(* stale sessions (findMany), then for each of them and at last for its    *)
(* own session calls transitionStreamSession, which reads the row and      *)
(* checks the transition in one step and updates the row in a later one;   *)
(* the row's update and the transition appended after it are one step.     *)

\* the ids expireStaleStreamSessions finds, in the order of their creation
StaleList(db) ==
  SelectSeq([i \in 1..Cardinality(DOMAIN db.rows) |-> i], LAMBDA id : id \in Stale(db))

\* the transition a handler asks for once the stale sessions are dealt with
OwnTransition(op, id, reason) ==
  IF op = "activate"
  THEN [id |-> id, toStatus |-> "active", event |-> "stream.activated", endReason |-> Null]
  ELSE [id |-> id, toStatus |-> "ended", event |-> "stream.ended",
        endReason |-> EndReason(reason)]

\* the call of transitionStreamSession a suspended handler makes next
NextTransition(request) ==
  IF request.stale # << >>
  THEN [id |-> Head(request.stale), toStatus |-> "expired", event |-> "stream.expired",
        endReason |-> Null]
  ELSE OwnTransition(request.op, request.id, request.reason)

\* transitionStreamSession up to its update: what it throws, or Null
readStreamSession(db, id, toStatus) ==
  IF ~Has(db.rows, id) THEN "STREAM_SESSION_NOT_FOUND"
  ELSE IF /\ db.rows[id].status # toStatus
          /\ ~canTransitionStreamSession(db.rows[id].status, toStatus)
       THEN "INVALID_STREAM_SESSION_TRANSITION"
       ELSE Null

\* transitionStreamSession from its update on, with the status and the time
\* it read before
writeStreamSession(db, id, fromStatus, toStatus, event, endReason, stamp) ==
  appendStreamSessionTransition(
    [db EXCEPT !.rows[id] =
       [@ EXCEPT !.status = toStatus,
                 !.activatedAt = IF toStatus = "active" THEN stamp ELSE @,
                 !.endedAt = IF toStatus \in {"ended", "expired"} THEN stamp ELSE @,
                 !.endReason = IF toStatus = "ended" THEN endReason ELSE @]],
    id, fromStatus, toStatus, event)

StreamStep(slot, request, db, resp) ==
  /\ streamRequests' = [streamRequests EXCEPT ![slot] = request]
  /\ streamSessionRows' = db.rows
  /\ streamSessionTransitions' = db.transitions
  /\ apiResp' = resp
  /\ UNCHANGED <<streams, streamSessions, files, now, provisions, playbacks, metricVars,
                 sessionSweepCount, lastResp, stoppedAck, verified, configVars, loopVars,
                 loginVars, cameraVars>>

\* a request arrives and asks for the stale sessions: op is "activate",
\* "end", or "list" for GET /stream-sessions, which has no transition of its own
StreamArrive(slot, op, id, reason) ==
  /\ streamRequests[slot] = Idle
  /\ StreamStep(slot,
                [pc |-> "read", op |-> op, id |-> id, reason |-> reason,
                 stale |-> StaleList(Database), fromStatus |-> Null, stamp |-> NullTime],
                Database, NoResp)

\* the handler's next call of transitionStreamSession reads and checks
StreamRead(slot) ==
  LET request == streamRequests[slot]
      next == NextTransition(request)
      error == readStreamSession(Database, next.id, next.toStatus)
  IN  /\ request # Idle
      /\ request.pc = "read"
      /\ IF request.stale = << >> /\ request.op = "list"
         THEN StreamStep(slot, Idle, Database,
                         [op |-> request.op, id |-> request.id, statusCode |-> 200])
         ELSE IF error # Null
         THEN StreamStep(slot, Idle, Database,
                         [op |-> request.op, id |-> request.id,
                          statusCode |-> ApiStatusCode(error)])
         ELSE StreamStep(slot,
                         [request EXCEPT !.pc = "write",
                                         !.fromStatus = streamSessionRows[next.id].status,
                                         !.stamp = nowIso],
                         Database, NoResp)

\* the call writes what it decided on
StreamWrite(slot) ==
  LET request == streamRequests[slot]
      next == NextTransition(request)
      written == writeStreamSession(Database, next.id, request.fromStatus, next.toStatus,
                                    next.event, next.endReason, request.stamp)
  IN  /\ request # Idle
      /\ request.pc = "write"
      /\ IF request.stale # << >>
         THEN StreamStep(slot,
                         [request EXCEPT !.pc = "read", !.stale = Tail(@),
                                         !.fromStatus = Null, !.stamp = NullTime],
                         written, NoResp)
         ELSE StreamStep(slot, Idle, written,
                         [op |-> request.op, id |-> request.id, statusCode |-> 200])

(* The control plane's cameras.  A handler is taken through from its       *)
(* first query to its answer; the profile, the audit log and the roles     *)
(* are left out.                                                           *)

\* the table of canTransitionCameraLifecycle
allowedLifecycle ==
  [draft |-> {"provisioning", "ready", "retired", "error"},
   provisioning |-> {"ready", "error", "retired"},
   ready |-> {"degraded", "offline", "error", "retired"},
   degraded |-> {"ready", "offline", "error", "retired"},
   offline |-> {"ready", "degraded", "error", "retired"},
   error |-> {"draft", "provisioning", "ready", "retired"},
   retired |-> {"draft"}]

canTransitionCameraLifecycle(from, to) == to \in allowedLifecycle[from]

\* the rows of prisma.camera, prisma.cameraHealthSnapshot and prisma.cameraLifecycleLog
CameraDatabase ==
  [cameras |-> cameras, snapshots |-> cameraHealthSnapshots, logs |-> cameraLifecycleLogs]

appendLifecycleLog(db, id, fromStatus, toStatus, event) ==
  [db EXCEPT !.logs = Append(@, [cameraId |-> id, fromStatus |-> fromStatus,
                                 toStatus |-> toStatus, event |-> event])]

\* transitionCameraLifecycle: what it throws, or Null, and the tables it leaves
transitionCameraLifecycle(db, id, toStatus, event) ==
  IF ~Has(db.cameras, id) THEN [error |-> "CAMERA_NOT_FOUND", db |-> db]
  ELSE LET fromStatus == db.cameras[id].lifecycleStatus
       IN  IF fromStatus # toStatus /\ ~canTransitionCameraLifecycle(fromStatus, toStatus)
           THEN [error |-> "INVALID_LIFECYCLE_TRANSITION", db |-> db]
           ELSE [error |-> Null,
                 db |-> appendLifecycleLog(
                   [db EXCEPT !.cameras[id] =
                      [@ EXCEPT !.lifecycleStatus = toStatus,
                                !.lastTransitionAt = nowIso,
                                !.lastSeenAt = IF toStatus = "ready" THEN nowIso ELSE @]],
                   id, fromStatus, toStatus, event)]

\* prisma.cameraHealthSnapshot.upsert
upsertHealthSnapshot(db, id, connectivity) ==
  [db EXCEPT !.snapshots =
     [c \in DOMAIN @ \cup {id} |->
        IF c = id THEN [connectivity |-> connectivity, checkedAt |-> nowIso] ELSE @[c]]]

\* what the error handler answers for a thrown error
CameraStatusCode(error) ==
  CASE error = Null -> 200
    [] error = "CAMERA_NOT_FOUND" -> 404
    [] error = "INVALID_LIFECYCLE_TRANSITION" -> 400

CameraAnswer(op, id, error, db) ==
  /\ cameras' = db.cameras
  /\ cameraHealthSnapshots' = db.snapshots
  /\ cameraLifecycleLogs' = db.logs
  /\ apiResp' = [op |-> op, id |-> id, statusCode |-> CameraStatusCode(error), error |-> error]
  /\ UNCHANGED <<streams, streamSessions, files, now, provisions, playbacks, metricVars,
                 sessionSweepCount, lastResp, stoppedAck, verified, configVars, loopVars,
                 streamSessionRows, streamSessionTransitions, loginVars, streamRequests>>

\* POST /cameras: created provisioning when active, draft when not
CreateCameraRequest(isActive) ==
  LET id == Cardinality(DOMAIN cameras) + 1
      status == IF isActive THEN "provisioning" ELSE "draft"
      camera == [lifecycleStatus |-> status, isActive |-> isActive,
                 lastTransitionAt |-> nowIso, lastSeenAt |-> NullTime]
  IN  CameraAnswer("create", id, Null,
                   appendLifecycleLog(
                     [CameraDatabase EXCEPT !.cameras = [c \in DOMAIN @ \cup {id} |->
                                                           IF c = id THEN camera ELSE @[c]]],
                     id, Null, status, "camera.created"))

\* POST /cameras/:id/validate: shouldPass is body.simulate = "pass" or,
\* without it, the completeness of the profile
ValidateRequest(id, shouldPass) ==
  LET transitioned ==
        transitionCameraLifecycle(CameraDatabase, id,
                                  IF shouldPass THEN "ready" ELSE "error",
                                  IF shouldPass THEN "camera.validation_passed"
                                  ELSE "camera.validation_failed")
  IN  CameraAnswer("validate", id, transitioned.error,
                   IF transitioned.error # Null THEN transitioned.db
                   ELSE upsertHealthSnapshot(transitioned.db, id,
                                             IF shouldPass THEN "online" ELSE "offline"))

\* POST /cameras/:id/retire and /reactivate: the transition, then isActive
ActivationRequest(op, id, toStatus, event, isActive) ==
  LET transitioned == transitionCameraLifecycle(CameraDatabase, id, toStatus, event)
  IN  CameraAnswer(op, id, transitioned.error,
                   IF transitioned.error # Null THEN transitioned.db
                   ELSE [transitioned.db EXCEPT !.cameras[id].isActive = isActive])

RetireRequest(id) == ActivationRequest("retire", id, "retired", "camera.retired", FALSE)

ReactivateRequest(id) ==
  ActivationRequest("reactivate", id, "draft", "camera.reactivated", TRUE)

\* POST /cameras/:id/health: the snapshot is stored, then the transition asked for
HealthRequest(id, connectivity) ==
  IF ~Has(cameras, id) THEN CameraAnswer("health", id, "CAMERA_NOT_FOUND", CameraDatabase)
  ELSE LET transitioned ==
             transitionCameraLifecycle(
               upsertHealthSnapshot(CameraDatabase, id, connectivity), id,
               CASE connectivity = "online" -> "ready"
                 [] connectivity = "degraded" -> "degraded"
                 [] OTHER -> "offline",
               "camera.health_updated")
       IN  CameraAnswer("health", id, transitioned.error, transitioned.db)

\* the control plane before its first request
ControlStores ==
  /\ streamSessionRows = << >>
  /\ streamSessionTransitions = << >>
  /\ apiResp = NoResp
  /\ loginBuckets = << >>
  /\ loginAttempts = << >>
  /\ streamRequests = [slot \in 1..ControlSlots |-> Idle]
  /\ cameras = << >>
  /\ cameraHealthSnapshots = << >>
  /\ cameraLifecycleLogs = << >>

\* the maps, counters and storage after buildApp(), with room for so many
\* suspended handlers
InitStores(nProvisions, nPlaybacks) ==
  /\ streams = << >>
  /\ streamSessions = << >>
  /\ files = {}
  /\ now = StartNow
  /\ provisions = [i \in 1..nProvisions |-> Idle]
  /\ playbacks = [i \in 1..nPlaybacks |-> Idle]
  /\ playbackRequestCounters = << >>
  /\ playbackErrorCounters = << >>
  /\ playbackReadRetryCounters = << >>
  /\ sessionSweepCount = 0
  /\ lastResp = NoResp
  /\ stoppedAck = {}
  /\ verified = NoResp
  /\ StartLoops
  /\ ControlStores

\* the state after buildApp() under the environment of the deployment
InitGateway(nProvisions, nPlaybacks) ==
  /\ InitStores(nProvisions, nPlaybacks)
  /\ RetryConfig(RetriesEnv, RetryBaseMsEnv, RetryMaxMsEnv)

\* the storage directory is not the gateway's alone: an asset is removed from
\* outside while the stream stays registered
RemoveAsset(tenantId, cameraId, asset) ==
  /\ <<tenantId, cameraId, asset>> \in files
  /\ files' = files \ {<<tenantId, cameraId, asset>>}
  /\ lastResp' = NoResp
  /\ UNCHANGED <<streams, streamSessions, now, provisions, playbacks, metricVars,
                 sessionSweepCount, stoppedAck, verified, configVars, loopVars, controlVars>>

\* the asset is written again from outside (its content is not modelled)
RestoreAsset(tenantId, cameraId, asset) ==
  /\ <<tenantId, cameraId, asset>> \notin files
  /\ files' = files \cup {<<tenantId, cameraId, asset>>}
  /\ lastResp' = NoResp
  /\ UNCHANGED <<streams, streamSessions, now, provisions, playbacks, metricVars,
                 sessionSweepCount, stoppedAck, verified, configVars, loopVars, controlVars>>

\* reads of the asset's path start to reject with the errno code (the file
\* is locked, or its permissions are changed) ...
FaultAsset(tenantId, cameraId, asset, code) ==
  /\ <<tenantId, cameraId, asset>> \in files
  /\ \A f \in files : Len(f) = 4 => SubSeq(f, 1, 3) # <<tenantId, cameraId, asset>>
  /\ files' = files \cup {<<tenantId, cameraId, asset, code>>}
  /\ lastResp' = NoResp
  /\ UNCHANGED <<streams, streamSessions, now, provisions, playbacks, metricVars,
                 sessionSweepCount, stoppedAck, verified, configVars, loopVars, controlVars>>

\* ... and stop to
ClearFault(tenantId, cameraId, asset) ==
  /\ \E f \in files : Len(f) = 4 /\ SubSeq(f, 1, 3) = <<tenantId, cameraId, asset>>
  /\ files' = {f \in files : Len(f) = 4 => SubSeq(f, 1, 3) # <<tenantId, cameraId, asset>>}
  /\ lastResp' = NoResp
  /\ UNCHANGED <<streams, streamSessions, now, provisions, playbacks, metricVars,
                 sessionSweepCount, stoppedAck, verified, configVars, loopVars, controlVars>>

\* guards that keep the counters of a behaviour within the bounds
VersionBelow(tenantId, cameraId, n) ==
  Has(streams, streamKey(tenantId, cameraId))
    => streams[streamKey(tenantId, cameraId)].version < n

ProvisionBudget(tenantId, cameraId) == VersionBelow(tenantId, cameraId, MaxVersion)

RequestBudget(n) == Total(playbackRequestCounters) + InFlight(playbacks) < n

SweepBudget == sessionSweepCount < MaxSweeps

ClockBudget == now + ClockStep <= MaxNow

-----------------------------------------------------------------------------
(* Provisioning races: requests on one key that overlap while suspended *)

InitRace == InitGateway(MaxProvisions, 1)

NextRace ==
  \/ \E body \in {BodyA, BodyUrl} :
       ProvisionBudget("t1", "c1") /\ ProvisionRequest("t1", "c1", body)
  \/ \E slot \in DOMAIN provisions : ProvisionWriteSegment(slot)
  \/ \E slot \in DOMAIN provisions : ProvisionFinish(slot)
  \/ Deprovision("t1", "c1")
  \/ ProbeTick
  \/ RequestBudget(RaceRequests) /\ PlaybackRequest("t1", "c1", TokenGood, "manifest")
  \/ \E slot \in DOMAIN playbacks : PlaybackRead(slot)

SpecRace == InitRace /\ [][NextRace]_vars

-----------------------------------------------------------------------------
(* Provisioning: every kind of configuration change on one key *)

Bodies == {BodyA, BodyProfiles, BodyUrl, BodyTransport, BodyCodec}

InitProvision == InitGateway(ProvisionSlots, 1)

NextProvision ==
  \/ \E body \in Bodies :
       ProvisionBudget("t1", "c1") /\ ProvisionRequest("t1", "c1", body)
  \/ \E slot \in DOMAIN provisions : ProvisionWriteSegment(slot)
  \/ \E slot \in DOMAIN provisions : ProvisionFinish(slot)
  \/ Deprovision("t1", "c1")
  \/ ProbeTick
  \/ ClockBudget /\ Tick(ClockStep)

SpecProvision == InitProvision /\ [][NextProvision]_vars

\* the same, with the probe timer firing again and again while it is live
SpecProbeFair == SpecProvision /\ WF_vars(ProbeTick)


-----------------------------------------------------------------------------
(* The token verifier on its own: a token, a request path and a wall      *)
(* clock are drawn, and parseAndValidatePlaybackToken is applied           *)

TokenPayloads ==
  {[sub |-> "user", tid |-> tid, cid |-> cid, sid |-> sid, exp |-> exp, iat |-> 1, v |-> v] :
     tid \in {"t1", "t2"}, cid \in {"c1", "c2"}, sid \in {"s1", ""},
     exp \in {0, 1, NearExp, FarExp}, v \in {1, 2}}

PayloadParts == {EncodePayload(p) : p \in TokenPayloads} \cup {GarbagePart, EmptyPart}

SignatureParts(payloadPart) ==
  {Hmac(streamTokenSecret, payloadPart), Hmac("other-secret", payloadPart),
   ForgedPart, GarbagePart, EmptyPart}

TrailingParts == {<< >>, <<GarbagePart>>, <<EmptyPart>>, <<GarbagePart, GarbagePart>>}

Tokens ==
  {TokenAbsent}
    \cup {<<p>> : p \in PayloadParts}
    \cup UNION {{<<p, sig>> \o rest : sig \in SignatureParts(p), rest \in TrailingParts} :
                p \in PayloadParts}

TokenClocks == {StartNow, NearExp * MsPerSecond - 1, NearExp * MsPerSecond}

InitToken ==
  /\ streams = << >>
  /\ streamSessions = << >>
  /\ files = {}
  /\ now \in TokenClocks
  /\ provisions = << >>
  /\ playbacks = << >>
  /\ playbackRequestCounters = << >>
  /\ playbackErrorCounters = << >>
  /\ playbackReadRetryCounters = << >>
  /\ sessionSweepCount = 0
  /\ lastResp = NoResp
  /\ stoppedAck = {}
  /\ verified \in {[op |-> "drawn", token |-> token, tenantId |-> "t1", cameraId |-> "c1"] :
                     token \in Tokens}
  /\ RetryConfig(RetriesEnv, RetryBaseMsEnv, RetryMaxMsEnv)
  /\ StartLoops
  /\ ControlStores

VerifyToken ==
  /\ verified.op = "drawn"
  /\ verified' = [op |-> "verified", token |-> verified.token,
                  tenantId |-> verified.tenantId, cameraId |-> verified.cameraId,
                  result |-> parseAndValidatePlaybackToken(verified.token, verified.tenantId,
                                                           verified.cameraId, now)]
  /\ UNCHANGED <<streams, streamSessions, files, now, provisions, playbacks, metricVars,
                 sessionSweepCount, lastResp, stoppedAck, configVars, loopVars, controlVars>>

SpecToken == InitToken /\ [][VerifyToken]_vars


-----------------------------------------------------------------------------
(* Session life cycle: playback, sweeps and deprovision on one stream *)

SessionTokens == {TokenGood, TokenShort}

InitSession == InitGateway(1, 1)

NextSession ==
  \/ \E body \in {BodyA, BodyUrl} :
       VersionBelow("t1", "c1", SessionVersions) /\ ProvisionRequest("t1", "c1", body)
  \/ \E slot \in DOMAIN provisions : ProvisionWriteSegment(slot)
  \/ \E slot \in DOMAIN provisions : ProvisionFinish(slot)
  \/ Deprovision("t1", "c1")
  \/ RemoveAsset("t1", "c1", "manifest")
  \/ \E token \in SessionTokens :
       RequestBudget(SessionRequests) /\ PlaybackRequest("t1", "c1", token, "manifest")
  \/ \E slot \in DOMAIN playbacks : PlaybackRead(slot)
  \/ SweepBudget /\ SweepTimer
  \/ SweepBudget /\ SweepRequest
  \/ ClockBudget /\ Tick(ClockStep)

SpecSession == InitSession /\ [][NextSession]_vars


-----------------------------------------------------------------------------
(* Playback checks: a forged and a valid token on a provisioned and on an *)
(* unprovisioned path, in every state of the stream                        *)

PlaybackPaths == {<<"t1", "c1">>, <<"t2", "c1">>}

PlaybackTokens == {TokenForged, TokenGood}

Assets == {"manifest", "segment"}

InitPlayback == InitGateway(1, 1)

NextPlayback ==
  \/ \E body \in {BodyA, BodyUrl} :
       VersionBelow("t1", "c1", PlaybackVersions) /\ ProvisionRequest("t1", "c1", body)
  \/ \E slot \in DOMAIN provisions : ProvisionWriteSegment(slot)
  \/ \E slot \in DOMAIN provisions : ProvisionFinish(slot)
  \/ Deprovision("t1", "c1")
  \/ RemoveAsset("t1", "c1", "segment")
  \/ \E path \in PlaybackPaths, token \in PlaybackTokens, asset \in Assets :
       RequestBudget(PlaybackRequests) /\ PlaybackRequest(path[1], path[2], token, asset)
  \/ \E slot \in DOMAIN playbacks : PlaybackRead(slot)

SpecPlayback == InitPlayback /\ [][NextPlayback]_vars

-----------------------------------------------------------------------------
(* Scope checks: one request under every kind of token, on either path *)

ScopeTokens ==
  {TokenAbsent, TokenForged, TokenStale, TokenOtherTenant, TokenOtherCamera, TokenGood}

InitScope == InitGateway(1, 1)

NextScope ==
  \/ \E body \in {BodyA, BodyUrl} :
       VersionBelow("t1", "c1", ScopeVersions) /\ ProvisionRequest("t1", "c1", body)
  \/ \E slot \in DOMAIN provisions : ProvisionWriteSegment(slot)
  \/ \E slot \in DOMAIN provisions : ProvisionFinish(slot)
  \/ Deprovision("t1", "c1")
  \/ \E asset \in Assets : RemoveAsset("t1", "c1", asset)
  \/ \E path \in PlaybackPaths, token \in ScopeTokens, asset \in Assets :
       RequestBudget(ScopeRequests) /\ PlaybackRequest(path[1], path[2], token, asset)
  \/ \E slot \in DOMAIN playbacks : PlaybackRead(slot)

SpecScope == InitScope /\ [][NextScope]_vars


-----------------------------------------------------------------------------
(* Tenants sharing a camera id: the identifiers are any non-empty strings, *)
(* a ":" inside them included                                              *)

Tenants == {"t1", "t1:c1"}

TenantTokens == {TokenColonSid, TokenColonTenant}

\* the first tenant changes its configuration, the second keeps one
TenantBodies(tenantId) == IF tenantId = "t1" THEN {BodyA, BodyUrl} ELSE {BodyA}

InitTenants == InitGateway(1, 1)

NextTenants ==
  \/ \E tenantId \in Tenants :
       \E body \in TenantBodies(tenantId) :
         VersionBelow(tenantId, "c1", TenantVersions) /\ ProvisionRequest(tenantId, "c1", body)
  \/ \E slot \in DOMAIN provisions : ProvisionWriteSegment(slot)
  \/ \E slot \in DOMAIN provisions : ProvisionFinish(slot)
  \/ \E tenantId \in Tenants : Deprovision(tenantId, "c1")
  \/ RemoveAsset("t1", "c1", "manifest")
  \/ \E tenantId \in Tenants, token \in TenantTokens :
       RequestBudget(TenantRequests) /\ PlaybackRequest(tenantId, "c1", token, "manifest")
  \/ \E slot \in DOMAIN playbacks : PlaybackRead(slot)

SpecTenants == InitTenants /\ [][NextTenants]_vars

-----------------------------------------------------------------------------
(* Deprovision of one stream while another has sessions of its own, with  *)
(* the clock and the sweep                                                 *)

DeprovisionTenants == {"t1", "t2"}

\* each tenant plays under a token of its own
DeprovisionToken(tenantId) == IF tenantId = "t1" THEN TokenShort ELSE TokenTenant2

InitDeprovision == InitGateway(1, 1)

NextDeprovision ==
  \/ \E tenantId \in DeprovisionTenants : ProvisionRequest(tenantId, "c1", BodyA)
  \/ \E slot \in DOMAIN provisions : ProvisionWriteSegment(slot)
  \/ \E slot \in DOMAIN provisions : ProvisionFinish(slot)
  \/ Deprovision("t1", "c1")
  \/ RemoveAsset("t1", "c1", "manifest")
  \/ \E tenantId \in DeprovisionTenants :
       /\ RequestBudget(DeprovisionRequests)
       /\ PlaybackRequest(tenantId, "c1", DeprovisionToken(tenantId), "manifest")
  \/ \E slot \in DOMAIN playbacks : PlaybackRead(slot)
  \/ SweepBudget /\ SweepRequest
  \/ ClockBudget /\ Tick(ClockStep)

SpecDeprovision == InitDeprovision /\ [][NextDeprovision]_vars

-----------------------------------------------------------------------------
(* The retrying read of an asset that goes missing, comes back, or cannot  *)
(* be read, under each retry budget                                        *)

RetriesEnvs == -1..MaxRetriesEnv

\* errno codes of a read that fails on a file that exists
FaultCodes == {"EBUSY", "EACCES"}

InitRetry ==
  /\ InitStores(1, 1)
  /\ \E retriesEnv \in RetriesEnvs : RetryConfig(retriesEnv, RetryBaseMsEnv, RetryMaxMsEnv)

NextRetry ==
  \/ VersionBelow("t1", "c1", RetryVersions) /\ ProvisionRequest("t1", "c1", BodyA)
  \/ \E slot \in DOMAIN provisions : ProvisionWriteSegment(slot)
  \/ \E slot \in DOMAIN provisions : ProvisionFinish(slot)
  \/ \E asset \in Assets : RemoveAsset("t1", "c1", asset)
  \/ \E asset \in Assets : RestoreAsset("t1", "c1", asset)
  \/ \E asset \in Assets, code \in FaultCodes : FaultAsset("t1", "c1", asset, code)
  \/ \E asset \in Assets : ClearFault("t1", "c1", asset)
  \/ \E asset \in Assets :
       /\ RequestBudget(RetryRequests)
       /\ PlaybackRequest("t1", "c1", TokenGood, asset)
  \/ \E slot \in DOMAIN playbacks : PlaybackRead(slot)

SpecRetry == InitRetry /\ [][NextRetry]_vars

-----------------------------------------------------------------------------
(* The backoff waits of one request whose asset stays missing, under each  *)
(* retry configuration                                                     *)

InitBackoff ==
  /\ InitStores(1, 1)
  /\ \E retriesEnv \in 0..BackoffRetriesEnv, baseMsEnv \in -1..BackoffBaseMsEnv,
        maxMsEnv \in -1..BackoffMaxMsEnv :
       RetryConfig(retriesEnv, baseMsEnv, maxMsEnv)

NextBackoff ==
  \/ VersionBelow("t1", "c1", BackoffVersions) /\ ProvisionRequest("t1", "c1", BodyA)
  \/ \E slot \in DOMAIN provisions : ProvisionWriteSegment(slot)
  \/ \E slot \in DOMAIN provisions : ProvisionFinish(slot)
  \/ RemoveAsset("t1", "c1", "manifest")
  \/ RequestBudget(BackoffRequests) /\ PlaybackRequest("t1", "c1", TokenGood, "manifest")
  \/ \E slot \in DOMAIN playbacks : PlaybackRead(slot)

SpecBackoff == InitBackoff /\ [][NextBackoff]_vars

-----------------------------------------------------------------------------
(* Session observation: one session seen under a short-lived and under a   *)
(* renewed token, beside a second session                                  *)

ObserveTokens == {TokenShort, TokenRenewed, TokenOtherSid}

InitObserve == InitGateway(1, 1)

NextObserve ==
  \/ VersionBelow("t1", "c1", ObserveVersions) /\ ProvisionRequest("t1", "c1", BodyA)
  \/ \E slot \in DOMAIN provisions : ProvisionWriteSegment(slot)
  \/ \E slot \in DOMAIN provisions : ProvisionFinish(slot)
  \/ \E token \in ObserveTokens :
       RequestBudget(ObserveRequests) /\ PlaybackRequest("t1", "c1", token, "manifest")
  \/ \E slot \in DOMAIN playbacks : PlaybackRead(slot)
  \/ SweepBudget /\ SweepRequest
  \/ ClockBudget /\ Tick(ClockStep)

SpecObserve == InitObserve /\ [][NextObserve]_vars

-----------------------------------------------------------------------------
(* The session list: two sessions of one stream, active or expired, seen   *)
(* at the same or at different instants, listed under one, two and four    *)
(* filters                                                                 *)

ListTokens == {TokenShort, TokenOtherSid}

\* the values a filter is asked with, the empty string among them
ListValues(f) ==
  CASE f = "tenantId" -> {"", "t1", "t2"}
    [] f = "cameraId" -> {"c1"}
    [] f = "status" -> {"active"}
    [] f = "sid" -> {"s2"}

\* the filters a request carries together
ListFilters == {{}, {"tenantId"}, {"tenantId", "status"}, {"cameraId", "sid"}, QueryFields}

ListQueries ==
  UNION {{q \in [D -> {"", "t1", "t2", "c1", "active", "s2"}] :
            \A f \in D : q[f] \in ListValues(f)} : D \in ListFilters}

InitList == InitGateway(1, 1)

NextList ==
  \/ VersionBelow("t1", "c1", ListVersions) /\ ProvisionRequest("t1", "c1", BodyA)
  \/ \E slot \in DOMAIN provisions : ProvisionWriteSegment(slot)
  \/ \E slot \in DOMAIN provisions : ProvisionFinish(slot)
  \/ \E token \in ListTokens :
       RequestBudget(ListRequests) /\ PlaybackRequest("t1", "c1", token, "manifest")
  \/ \E slot \in DOMAIN playbacks : PlaybackRead(slot)
  \/ SweepBudget /\ SweepRequest
  \/ ClockBudget /\ Tick(ClockStep)
  \/ \E q \in ListQueries : SessionsRequest(q)

SpecList == InitList /\ [][NextList]_vars

-----------------------------------------------------------------------------
(* The control plane: sessions issued, activated and ended, once and       *)
(* again, before and after their tokens run out                            *)

\* the ids asked for: those issued and one that never is
ControlIds == 1..(ControlSessions + 1)

EndReasons == {Null, "viewer closed"}

TransitionBudget == Len(streamSessionTransitions) < MaxTransitions

InitControl == InitGateway(1, 1)

NextControl ==
  \/ /\ Cardinality(DOMAIN streamSessionRows) < ControlSessions
     /\ StreamTokenRequest
  \/ \E id \in ControlIds : TransitionBudget /\ ActivateRequest(id)
  \/ \E id \in ControlIds : \E reason \in EndReasons : TransitionBudget /\ EndRequest(id, reason)
  \/ /\ now < StartNow + ControlTicks * (StreamTokenTtlMs + 1)
     /\ Tick(StreamTokenTtlMs + 1)

SpecControl == InitControl /\ [][NextControl]_vars

-----------------------------------------------------------------------------
(* Sweep passes, by the timer and on request: a session whose token runs   *)
(* out and one whose token does not, swept once and again                  *)

SweepTokens == {TokenShort, TokenOtherSid}

InitSweep == InitGateway(1, 1)

NextSweep ==
  \/ VersionBelow("t1", "c1", SweepVersions) /\ ProvisionRequest("t1", "c1", BodyA)
  \/ \E slot \in DOMAIN provisions : ProvisionWriteSegment(slot)
  \/ \E slot \in DOMAIN provisions : ProvisionFinish(slot)
  \/ \E token \in SweepTokens :
       RequestBudget(SweepPlaybacks) /\ PlaybackRequest("t1", "c1", token, "manifest")
  \/ \E slot \in DOMAIN playbacks : PlaybackRead(slot)
  \/ sessionSweepCount < SweepPasses /\ SweepTimer
  \/ sessionSweepCount < SweepPasses /\ SweepRequest
  \/ ClockBudget /\ Tick(ClockStep)

SpecSweep == InitSweep /\ [][NextSweep]_vars

-----------------------------------------------------------------------------
(* The session upsert among the checks: requests refused at the token, at  *)
(* the scope and at the stream, and requests whose asset is missing, with  *)
(* a session in place and the clock moving                                 *)

UpsertTokens == {TokenForged, TokenShort}

UpsertPaths == {<<"t1", "c1">>, <<"t2", "c1">>}

InitUpsert == InitGateway(1, 1)

NextUpsert ==
  \/ VersionBelow("t1", "c1", UpsertVersions) /\ ProvisionRequest("t1", "c1", BodyA)
  \/ \E slot \in DOMAIN provisions : ProvisionWriteSegment(slot)
  \/ \E slot \in DOMAIN provisions : ProvisionFinish(slot)
  \/ Deprovision("t1", "c1")
  \/ \E asset \in Assets : RemoveAsset("t1", "c1", asset)
  \/ \E path \in UpsertPaths, token \in UpsertTokens, asset \in Assets :
       RequestBudget(UpsertRequests) /\ PlaybackRequest(path[1], path[2], token, asset)
  \/ \E slot \in DOMAIN playbacks : PlaybackRead(slot)
  \/ ClockBudget /\ Tick(ClockStep)

SpecUpsert == InitUpsert /\ [][NextUpsert]_vars

-----------------------------------------------------------------------------
(* The edge of expiry: requests and sweeps one millisecond before, at and  *)
(* one millisecond after the instant a token runs out                      *)

ExpiryTokens == {TokenShort, TokenRenewed}

\* the clock jumps to the millisecond before TokenShort runs out, then
\* advances by the millisecond
ExpiryStep ==
  IF now < NearExp * MsPerSecond - 1 THEN NearExp * MsPerSecond - 1 - now ELSE 1

InitExpiry == InitGateway(1, 1)

NextExpiry ==
  \/ VersionBelow("t1", "c1", ExpiryVersions) /\ ProvisionRequest("t1", "c1", BodyA)
  \/ \E slot \in DOMAIN provisions : ProvisionWriteSegment(slot)
  \/ \E slot \in DOMAIN provisions : ProvisionFinish(slot)
  \/ \E token \in ExpiryTokens :
       RequestBudget(ExpiryRequests) /\ PlaybackRequest("t1", "c1", token, "manifest")
  \/ \E slot \in DOMAIN playbacks : PlaybackRead(slot)
  \/ SweepBudget /\ SweepRequest
  \/ now < ExpiryMaxNow /\ Tick(ExpiryStep)

SpecExpiry == InitExpiry /\ [][NextExpiry]_vars

-----------------------------------------------------------------------------
(* Logins: two clients, one behind a proxy, attempting within a window,    *)
(* at its last millisecond and after it                                    *)

LoginForwardedFor == {Null, <<"10.0.0.1", "10.0.0.9">>}

LoginIps == {"10.0.0.2"}

InitLogin == InitGateway(1, 1)

NextLogin ==
  \/ /\ Len(loginAttempts) < LoginRequests
     /\ \E forwardedFor \in LoginForwardedFor : \E ip \in LoginIps :
          \E credentialsOk \in BOOLEAN : LoginRequest(forwardedFor, ip, credentialsOk)
  \/ /\ now < StartNow + LoginTicks
     /\ Tick(1)

SpecLogin == InitLogin /\ [][NextLogin]_vars

-----------------------------------------------------------------------------
(* The control plane await by await: a session activated, ended and        *)
(* listed by handlers that run into one another, before and after its      *)
(* token runs out                                                          *)

InterleaveOps == {"activate", "end", "list"}

InitInterleave == InitGateway(1, 1)

NextInterleave ==
  \/ /\ Cardinality(DOMAIN streamSessionRows) < InterleaveSessions
     /\ StreamTokenRequest
  \/ \E slot \in 1..ControlSlots : \E op \in InterleaveOps :
       \E id \in 1..InterleaveSessions : \E reason \in EndReasons :
         /\ Len(streamSessionTransitions) < InterleaveTransitions
         /\ StreamArrive(slot, op, id, reason)
  \/ \E slot \in 1..ControlSlots : StreamRead(slot)
  \/ \E slot \in 1..ControlSlots : StreamWrite(slot)
  \/ /\ now < StartNow + StreamTokenTtlMs
     /\ Tick(StreamTokenTtlMs + 1)

SpecInterleave == InitInterleave /\ [][NextInterleave]_vars

-----------------------------------------------------------------------------
(* Cameras: created active or in draft, validated, reported on, retired    *)
(* and reactivated in any order                                            *)

\* the ids asked for: those created and one that never is
CameraIds == 1..(CameraCount + 1)

Connectivities == {"online", "degraded", "offline"}

LogBudget == Len(cameraLifecycleLogs) < MaxLifecycleLogs

InitCameras == InitGateway(1, 1)

NextCameras ==
  \/ \E isActive \in BOOLEAN :
       /\ Cardinality(DOMAIN cameras) < CameraCount
       /\ CreateCameraRequest(isActive)
  \/ \E id \in CameraIds : \E shouldPass \in BOOLEAN : LogBudget /\ ValidateRequest(id, shouldPass)
  \/ \E id \in CameraIds : LogBudget /\ RetireRequest(id)
  \/ \E id \in CameraIds : LogBudget /\ ReactivateRequest(id)
  \/ \E id \in CameraIds : \E connectivity \in Connectivities :
       LogBudget /\ HealthRequest(id, connectivity)
  \/ /\ now < StartNow + CameraTicks
     /\ Tick(1)

SpecCameras == InitCameras /\ [][NextCameras]_vars

-----------------------------------------------------------------------------
(* Shutdown: the close hook among the timers and the requests *)

InitShutdown == InitGateway(1, 1)

NextShutdown ==
  \/ VersionBelow("t1", "c1", ShutdownVersions) /\ ProvisionRequest("t1", "c1", BodyA)
  \/ \E slot \in DOMAIN provisions : ProvisionWriteSegment(slot)
  \/ \E slot \in DOMAIN provisions : ProvisionFinish(slot)
  \/ Deprovision("t1", "c1")
  \/ RequestBudget(ShutdownRequests) /\ PlaybackRequest("t1", "c1", TokenShort, "manifest")
  \/ \E slot \in DOMAIN playbacks : PlaybackRead(slot)
  \/ ProbeTick
  \/ SweepBudget /\ SweepTimer
  \/ SweepBudget /\ SweepRequest
  \/ ClockBudget /\ Tick(ClockStep)
  \/ Close

SpecShutdown == InitShutdown /\ [][NextShutdown]_vars

-----------------------------------------------------------------------------
(* Steps of a behaviour, as seen from outside *)

\* a playback request arrived and passed every check before the asset read
PlaybackAccepted(tenantId, cameraId) ==
  \E i \in DOMAIN playbacks :
    /\ playbacks[i] = Idle
    /\ playbacks'[i] # Idle
    /\ playbacks'[i].tenantId = tenantId
    /\ playbacks'[i].cameraId = cameraId

\* a playback request arrived and was refused before the asset read
PlaybackRefused(tenantId, cameraId) ==
  /\ playbacks' = playbacks
  /\ lastResp'.op = "playback"
  /\ lastResp'.tenantId = tenantId
  /\ lastResp'.cameraId = cameraId

\* a POST /provision arrived and was suspended in ensureMockPlaylist (slot i)
ProvisionAccepted(i) == provisions[i] = Idle /\ provisions'[i] # Idle

\* the (rtspUrl, source) an entry holds, in the shape of a request body
ConfigOf(entry) ==
  Body(entry.rtspUrl, entry.source.transport, entry.source.codecHint,
       entry.source.targetProfiles)

-----------------------------------------------------------------------------
(* Claims *)

\* C1: under any interleaving of POST /provision requests on one key,
\* overlapping ones included, the version stored for the key never
\* decreases.
C1_VersionNeverDecreases ==
  [][\A key \in DOMAIN streams : streams'[key].version >= streams[key].version]_vars

\* C10: once POST /deprovision has answered removed=true for a key, every
\* playback request for it that arrives afterwards with a valid, correctly
\* scoped token is answered 410 PLAYBACK_STREAM_STOPPED, also when a
\* provision of the key was in flight at the deprovision.
C10_DeprovisionSeenByPlayback ==
  [][streamKey("t1", "c1") \in stoppedAck
       => /\ ~PlaybackAccepted("t1", "c1")
          /\ PlaybackRefused("t1", "c1") => lastResp'.code = "PLAYBACK_STREAM_STOPPED"]_vars

\* C2: a POST /provision whose (rtspUrl, source) equals what the key holds
\* never starts a reprovision; it answers reprovisioned=false with the
\* stored entry and leaves the registry as it was.  A POST /provision that
\* answers reprovisioned=true leaves its own configuration stored under the
\* returned version, so every later identical call is such a no-op: the
\* same version, reprovisioned=true on the first call only.
C2_ProvisionIdempotent ==
  [][/\ \A i \in DOMAIN provisions :
          (ProvisionAccepted(i) /\ Has(streams, streamKey("t1", "c1")))
            => ConfigOf(streams[streamKey("t1", "c1")]) # provisions'[i].body
     /\ (lastResp'.op = "provision" /\ ~lastResp'.reprovisioned)
          => /\ streams' = streams
             /\ lastResp'.data = streams[streamKey("t1", "c1")]
             /\ ConfigOf(streams[streamKey("t1", "c1")]) = lastResp'.body
     /\ (lastResp'.op = "provision" /\ lastResp'.reprovisioned)
          => /\ ConfigOf(streams'[streamKey("t1", "c1")]) = lastResp'.body
             /\ streams'[streamKey("t1", "c1")].version = lastResp'.data.version]_vars

\* C2 witness: an identical call was answered reprovisioned=false at
\* version 2, after the clock had moved on from the entry's last update
C2_Witness ==
  /\ lastResp.op = "provision"
  /\ ~lastResp.reprovisioned
  /\ lastResp.data.version = 2
  /\ lastResp.data.status = "ready"
  /\ DateParse(lastResp.data.updatedAt) < now

\* C3: the first provision of a key stores version 1; a POST /provision
\* whose rtspUrl, transport, codecHint or targetProfiles (as an ordered
\* sequence) differs from the entry it finds stores the version of that
\* entry plus one, and answers that version with reprovisioned=true.
C3_VersionStep ==
  [][/\ (lastResp'.op = "provision" /\ ConfigOf(lastResp'.data) # lastResp'.body) => FALSE
     /\ (/\ lastResp'.op = "provision"
         /\ Has(streams, streamKey("t1", "c1"))
         /\ ConfigOf(streams[streamKey("t1", "c1")]) # lastResp'.body)
          => lastResp'.reprovisioned
     /\ \A i \in DOMAIN provisions :
          ProvisionAccepted(i)
            => /\ streams'[streamKey("t1", "c1")].version =
                    (IF Has(streams, streamKey("t1", "c1"))
                     THEN streams[streamKey("t1", "c1")].version + 1 ELSE 1)
               /\ provisions'[i].hasExisting = Has(streams, streamKey("t1", "c1"))
               /\ provisions'[i].hasExisting
                    => provisions'[i].existingVersion = streams[streamKey("t1", "c1")].version
     /\ \A i \in DOMAIN provisions :
          (provisions[i] # Idle /\ provisions'[i] = Idle)
            => /\ lastResp'.op = "provision"
               /\ lastResp'.reprovisioned
               /\ lastResp'.data.version =
                    (IF provisions[i].hasExisting THEN provisions[i].existingVersion + 1 ELSE 1)
               /\ streams'[streamKey("t1", "c1")].version = lastResp'.data.version]_vars

\* C3 witness: a request that only reorders targetProfiles was answered
\* with version 2 and reprovisioned=true
C3_Witness ==
  /\ lastResp.op = "provision"
  /\ lastResp.reprovisioned
  /\ lastResp.data.version = 2
  /\ lastResp.body = BodyProfiles
  /\ lastResp.data.source.targetProfiles = <<"sub", "main">>

\* what can be told of a token without running the verifier
TokenMissing(token) == token = << >> \/ token = <<EmptyPart>>

TokenOneDot(token) ==
  Len(token) = 2 /\ token[1] # EmptyPart /\ token[2] # EmptyPart

TokenPairMalformed(token) ==
  Len(token) < 2 \/ token[1] = EmptyPart \/ token[2] = EmptyPart

TokenSigned(token) == token[2] = Hmac(streamTokenSecret, token[1])

TokenPayloadValid(token) ==
  /\ token[1].k = "b64json"
  /\ token[1].payload.sub # ""
  /\ token[1].payload.tid # ""
  /\ token[1].payload.cid # ""
  /\ token[1].payload.sid # ""
  /\ token[1].payload.exp >= 1
  /\ token[1].payload.iat >= 1
  /\ token[1].payload.v = 1

TokenExpired(token, clock) == token[1].payload.exp * MsPerSecond < clock + 1

TokenErrorCodes ==
  {"PLAYBACK_TOKEN_MISSING", "PLAYBACK_TOKEN_FORMAT_INVALID", "PLAYBACK_TOKEN_SIGNATURE_INVALID",
   "PLAYBACK_TOKEN_PAYLOAD_INVALID", "PLAYBACK_TOKEN_EXPIRED"}

\* C6: the verifier reports the first failing check in the order missing,
\* format, signature, payload schema, expiry: a wrong signature (of the
\* right or of a wrong length) is SIGNATURE_INVALID whatever the payload
\* and its exp, a signed schema-invalid payload is PAYLOAD_INVALID
\* whatever its exp, and only a signed, schema-valid payload is EXPIRED.
C6_FirstFailingCheck ==
  verified.op = "verified" =>
    LET token == verified.token
        code == verified.result.code
    IN  /\ TokenMissing(token) <=> code = "PLAYBACK_TOKEN_MISSING"
        /\ (~TokenMissing(token) /\ Len(token) <= 2 /\ TokenPairMalformed(token))
             => code = "PLAYBACK_TOKEN_FORMAT_INVALID"
        /\ (~TokenMissing(token) /\ Len(token) <= 2 /\ ~TokenPairMalformed(token))
             => code # "PLAYBACK_TOKEN_FORMAT_INVALID"
        /\ code \notin {"PLAYBACK_TOKEN_MISSING", "PLAYBACK_TOKEN_FORMAT_INVALID"}
             => /\ ~TokenSigned(token) <=> code = "PLAYBACK_TOKEN_SIGNATURE_INVALID"
                /\ (TokenSigned(token) /\ ~TokenPayloadValid(token))
                     <=> code = "PLAYBACK_TOKEN_PAYLOAD_INVALID"
                /\ (TokenSigned(token) /\ TokenPayloadValid(token) /\ TokenExpired(token, now))
                     <=> code = "PLAYBACK_TOKEN_EXPIRED"

\* C6 witness: a token with a forged signature whose payload is both
\* schema-invalid and expired was answered SIGNATURE_INVALID
C6_Witness ==
  /\ verified.op = "verified"
  /\ Len(verified.token) = 2
  /\ verified.token[2] \in {GarbagePart, ForgedPart}
  /\ verified.token[1].k = "b64json"
  /\ verified.token[1].payload.v = 2
  /\ verified.token[1].payload.exp = 1
  /\ verified.result.code = "PLAYBACK_TOKEN_SIGNATURE_INVALID"

\* C7: every non-empty token that is not exactly one "." between a
\* non-empty payload part and a non-empty signature part is rejected with
\* 401 PLAYBACK_TOKEN_FORMAT_INVALID; stated here for the tokens the claim
\* singles out, a valid token followed by further "."-separated parts.
C7_FormatInvalidUnlessOneDot ==
  (/\ verified.op = "verified"
   /\ Len(verified.token) > 2
   /\ parseAndValidatePlaybackToken(SubSeq(verified.token, 1, 2), verified.tenantId,
                                    verified.cameraId, now).statusCode = 200)
    => /\ verified.result.statusCode = 401
       /\ verified.result.code = "PLAYBACK_TOKEN_FORMAT_INVALID"

-----------------------------------------------------------------------------
(* Sessions *)

\* the session of sid "s1" on path (t1, c1) is in a terminal state
Session1 == streamSessionKey("t1", "c1", "s1")

Session1Closed ==
  /\ Has(streamSessions, Session1)
  /\ streamSessions[Session1].status \in {"ended", "expired"}

\* a playback request for (t1, c1) arrives in this step
PlaybackArrives == PlaybackAccepted("t1", "c1") \/ PlaybackRefused("t1", "c1")

\* C4, as the specification words it: once the session (t1, c1, s1) is
\* ended or expired, every later playback request bearing sid s1 is answered
\* 401 PLAYBACK_SESSION_CLOSED.
C4_ClosedSessionAlwaysSessionClosed ==
  [][Session1Closed /\ PlaybackArrives
       => /\ PlaybackRefused("t1", "c1")
          /\ lastResp'.statusCode = 401
          /\ lastResp'.code = "PLAYBACK_SESSION_CLOSED"]_vars

\* C4, amended: once the session (t1, c1, s1) is ended or expired, a later
\* playback request bearing sid s1 is never played; it is answered 401
\* PLAYBACK_SESSION_CLOSED when its token verifies for the path and the
\* stream is ready, and with the error of the token or of the stream
\* otherwise.
C4_ClosedSessionNeverPlays ==
  [][Session1Closed /\ PlaybackArrives
       => LET parsed == parseAndValidatePlaybackToken(lastResp'.token, "t1", "c1", now)
              ready == assertStreamReady(streamKey("t1", "c1"))
          IN  /\ ~PlaybackAccepted("t1", "c1")
              /\ lastResp'.statusCode # 200
              /\ parsed.statusCode = 200 /\ ready.statusCode = 200
                   => lastResp'.statusCode = 401 /\ lastResp'.code = "PLAYBACK_SESSION_CLOSED"
              /\ parsed.statusCode # 200 => lastResp'.code = parsed.code
              /\ parsed.statusCode = 200 /\ ready.statusCode # 200
                   => lastResp'.code = ready.code]_vars

\* the session expired with its first token, and a request bearing the
\* same sid under a token that is still valid was answered
C4_Witness ==
  /\ Has(streamSessions, Session1)
  /\ streamSessions[Session1].status = "expired"
  /\ lastResp.op = "playback"
  /\ lastResp.token = TokenGood
  /\ lastResp.code = "PLAYBACK_SESSION_CLOSED"

\* C5: a session's status only moves issued -> active -> {ended, expired};
\* once it is ended or expired no playback request, sweep or deprovision
\* changes its status, endedAt or endReason, and no session is dropped.
C5_SessionStatusMonotone ==
  [][\A k \in DOMAIN streamSessions :
       /\ Has(streamSessions', k)
       /\ streamSessions[k].status \in {"ended", "expired"}
            => /\ streamSessions'[k].status = streamSessions[k].status
               /\ streamSessions'[k].endedAt = streamSessions[k].endedAt
               /\ streamSessions'[k].endReason = streamSessions[k].endReason
       /\ streamSessions[k].status = "active"
            => streamSessions'[k].status \in {"active", "ended", "expired"}
       /\ streamSessions[k].status = "issued"
            => streamSessions'[k].status \in {"issued", "active", "ended", "expired"}]_vars

\* a deprovision of the stream has just acted on a session that had expired
C5_Witness ==
  /\ Has(streamSessions, Session1)
  /\ streamSessions[Session1].status = "expired"
  /\ streamSessions[Session1].endReason = "token_expired"
  /\ lastResp.op = "deprovision"
  /\ lastResp.removed = TRUE

-----------------------------------------------------------------------------
(* Playback checks *)

\* a playback request with this path, token and asset arrives in this step
\* and is suspended in the read of the asset
AcceptedWith(tenantId, cameraId, token, asset) ==
  \E i \in DOMAIN playbacks :
    /\ playbacks[i] = Idle
    /\ playbacks'[i] # Idle
    /\ playbacks'[i].tenantId = tenantId
    /\ playbacks'[i].cameraId = cameraId
    /\ playbacks'[i].token = token
    /\ playbacks'[i].asset = asset

\* ... arrives in this step and is answered the error `code`
RefusedWith(tenantId, cameraId, token, asset, statusCode, code) ==
  /\ playbacks' = playbacks
  /\ lastResp' = PlaybackResp(tenantId, cameraId, asset, token, statusCode, code)

ArrivesWith(tenantId, cameraId, token, asset) ==
  \/ AcceptedWith(tenantId, cameraId, token, asset)
  \/ /\ playbacks' = playbacks
     /\ lastResp'.op = "playback"
     /\ lastResp'.tenantId = tenantId
     /\ lastResp'.cameraId = cameraId
     /\ lastResp'.token = token
     /\ lastResp'.asset = asset

\* a token of one "." that is correctly signed, schema-valid and unexpired
TokenVerifies(token) ==
  /\ ~TokenMissing(token)
  /\ TokenOneDot(token)
  /\ TokenSigned(token)
  /\ TokenPayloadValid(token)
  /\ ~TokenExpired(token, now)

TokenInScope(token, tenantId, cameraId) ==
  token[1].payload.tid = tenantId /\ token[1].payload.cid = cameraId

StreamStepCode(key) ==
  IF key \notin DOMAIN streams THEN "PLAYBACK_STREAM_NOT_FOUND"
  ELSE CASE streams[key].status = "provisioning" -> "PLAYBACK_STREAM_NOT_READY"
         [] streams[key].status = "stopped" -> "PLAYBACK_STREAM_STOPPED"
         [] OTHER -> "OK"

StatusOf(code) ==
  CASE code \in TokenErrorCodes -> 401
    [] code = "PLAYBACK_TOKEN_SCOPE_MISMATCH" -> 403
    [] code = "PLAYBACK_STREAM_NOT_FOUND" -> 404
    [] code = "PLAYBACK_STREAM_NOT_READY" -> 409
    [] code = "PLAYBACK_STREAM_STOPPED" -> 410
    [] code = "PLAYBACK_SESSION_CLOSED" -> 401

SessionOfTokenClosed(tenantId, cameraId, token) ==
  LET k == streamSessionKey(tenantId, cameraId, token[1].payload.sid)
  IN  k \in DOMAIN streamSessions /\ streamSessions[k].status \in {"ended", "expired"}

\* the error of the earliest failing step before the asset read, "OK" if none
EarliestFailure(tenantId, cameraId, token) ==
  IF ~TokenVerifies(token) THEN "token"
  ELSE IF ~TokenInScope(token, tenantId, cameraId) THEN "PLAYBACK_TOKEN_SCOPE_MISMATCH"
  ELSE IF StreamStepCode(streamKey(tenantId, cameraId)) # "OK"
  THEN StreamStepCode(streamKey(tenantId, cameraId))
  ELSE IF SessionOfTokenClosed(tenantId, cameraId, token) THEN "PLAYBACK_SESSION_CLOSED"
  ELSE "OK"

-----------------------------------------------------------------------------
(* Tenant isolation *)

\* a provision, reprovision, deprovision or playback against (tenantId, c1)
\* takes a step
ActsOn(tenantId) ==
  \/ \E body \in TenantBodies(tenantId) : ProvisionRequest(tenantId, "c1", body)
  \/ \E slot \in DOMAIN provisions :
       /\ provisions[slot] # Idle
       /\ provisions[slot].tenantId = tenantId
       /\ ProvisionWriteSegment(slot) \/ ProvisionFinish(slot)
  \/ Deprovision(tenantId, "c1")
  \/ \E token \in TenantTokens : PlaybackRequest(tenantId, "c1", token, "manifest")
  \/ \E slot \in DOMAIN playbacks :
       /\ playbacks[slot] # Idle
       /\ playbacks[slot].tenantId = tenantId
       /\ PlaybackRead(slot)

\* the entry of a stream, as the set of at most one entry held for it
StreamOf(registry, tenantId, cameraId) ==
  {registry[k] : k \in {k \in DOMAIN registry :
                          registry[k].tenantId = tenantId /\ registry[k].cameraId = cameraId}}

\* the sessions of a stream, with the sid of each
SessionsOf(sessions, tenantId, cameraId) ==
  {sessions[k] : k \in {k \in DOMAIN sessions :
                          sessions[k].tenantId = tenantId /\ sessions[k].cameraId = cameraId}}

\* C11: for distinct tenants T1 and T2 and one camera id, a provision,
\* reprovision, deprovision or playback against (T1, c1) leaves the stream
\* entry of (T2, c1) and every session of (T2, c1) as they were.
C11_TenantIsolation ==
  [][\A tenant1 \in Tenants, tenant2 \in Tenants :
       (tenant1 # tenant2 /\ ActsOn(tenant1))
         => /\ StreamOf(streams', tenant2, "c1") = StreamOf(streams, tenant2, "c1")
            /\ SessionsOf(streamSessions', tenant2, "c1")
                 = SessionsOf(streamSessions, tenant2, "c1")]_vars

-----------------------------------------------------------------------------
(* Sweeps *)

\* a sweep, by the timer or by POST /sessions/sweep, runs in this step
SweepRuns == sessionSweepCount' = sessionSweepCount + 1

\* C12, as the specification words it: right after a sweep at wall time t
\* every session whose expiresAt <= t is expired, and every session that was
\* active with t - lastSeenAt > idleTtl is ended with endReason idle_timeout.
C12_SweepExpiresAndEndsAll ==
  [][SweepRuns
       => \A k \in DOMAIN streamSessions :
            /\ streamSessions[k].expiresAt.iso <= now
                 => streamSessions'[k].status = "expired"
            /\ (/\ streamSessions[k].status = "active"
                /\ now - streamSessions[k].lastSeenAt.iso > sessionIdleTtlMs)
                 => /\ streamSessions'[k].status = "ended"
                    /\ streamSessions'[k].endReason = "idle_timeout"]_vars

\* C12, amended: right after a sweep at wall time t every session that was
\* issued or active with expiresAt <= t is expired (token_expired, endedAt
\* t), every session that was active with expiresAt > t and
\* t - lastSeenAt > idleTtl is ended (idle_timeout, endedAt t), and every
\* other session, the ended and expired ones included, is as it was.
C12_SweepDeterminism ==
  [][SweepRuns
       => /\ DOMAIN streamSessions' = DOMAIN streamSessions
          /\ \A k \in DOMAIN streamSessions :
               LET session == streamSessions[k]
                   open == session.status \in {"issued", "active"}
                   due == session.expiresAt.iso <= now
                   idle == /\ session.status = "active"
                           /\ now - session.lastSeenAt.iso > sessionIdleTtlMs
               IN  streamSessions'[k] =
                     IF open /\ due
                     THEN [session EXCEPT !.status = "expired", !.endedAt = [iso |-> now],
                                          !.endReason = "token_expired"]
                     ELSE IF idle
                     THEN [session EXCEPT !.status = "ended", !.endedAt = [iso |-> now],
                                          !.endReason = "idle_timeout"]
                     ELSE session]_vars

\* POST /sessions/sweep has just ended an idle session whose token had not
\* expired
C12_Witness ==
  /\ lastResp.op = "sweep"
  /\ lastResp.data = [expired |-> 0, ended |-> 1]
  /\ Has(streamSessions, Session1)
  /\ streamSessions[Session1].status = "ended"
  /\ streamSessions[Session1].endReason = "idle_timeout"
  /\ streamSessions[Session1].endedAt = [iso |-> now]

\* the sessions a sweep closes in this step, by the status it gives them
ClosedAs(status) ==
  {k \in DOMAIN streamSessions :
     /\ streamSessions[k].status \in {"issued", "active"}
     /\ streamSessions'[k].status = status}

\* the session (t1, c1, s1) was closed by a sweep
Session1Swept ==
  /\ Has(streamSessions, Session1)
  /\ \/ /\ streamSessions[Session1].status = "expired"
        /\ streamSessions[Session1].endReason = "token_expired"
     \/ /\ streamSessions[Session1].status = "ended"
        /\ streamSessions[Session1].endReason = "idle_timeout"

\* C13, as the specification words it: a playback request that arrives
\* after a sweep closed the session of its sid is answered
\* PLAYBACK_SESSION_CLOSED.
C13_SweptSessionAlwaysSessionClosed ==
  [][Session1Swept /\ PlaybackArrives
       => /\ PlaybackRefused("t1", "c1")
          /\ lastResp'.code = "PLAYBACK_SESSION_CLOSED"]_vars

\* C13, amended: when POST /sessions/sweep answers {expired: n, ended: m},
\* exactly n sessions have become expired and m ended in that sweep; a
\* playback request that arrives afterwards with the sid of one of them is
\* never played, and is answered PLAYBACK_SESSION_CLOSED when its token
\* verifies for the path and the stream is ready, with the error of the
\* token or of the stream otherwise.
C13_SweepCountsAndCloses ==
  [][/\ (SweepRuns /\ lastResp'.op = "sweep")
          => /\ lastResp'.data.expired = Cardinality(ClosedAs("expired"))
             /\ lastResp'.data.ended = Cardinality(ClosedAs("ended"))
     /\ (Session1Swept /\ PlaybackArrives)
          => /\ PlaybackRefused("t1", "c1")
             /\ IF ~TokenVerifies(lastResp'.token)
                THEN lastResp'.code \in TokenErrorCodes
                ELSE IF StreamStepCode(streamKey("t1", "c1")) # "OK"
                THEN lastResp'.code = StreamStepCode(streamKey("t1", "c1"))
                ELSE lastResp'.code = "PLAYBACK_SESSION_CLOSED"]_vars

\* a request bearing the sid of a session that a sweep ended as idle was
\* answered PLAYBACK_SESSION_CLOSED
C13_Witness ==
  /\ Has(streamSessions, Session1)
  /\ streamSessions[Session1].endReason = "idle_timeout"
  /\ lastResp.op = "playback"
  /\ lastResp.token = TokenGood
  /\ lastResp.code = "PLAYBACK_SESSION_CLOSED"

-----------------------------------------------------------------------------
(* Playback requests that interleave on one sid *)

\* a request on (t1, c1) has been answered PLAYBACK_SESSION_CLOSED
ClosedAnswered ==
  \E asset \in Assets :
    Has(playbackErrorCounters, ErrorKey("t1", "c1", asset, "PLAYBACK_SESSION_CLOSED"))

\* a suspended request on (t1, c1) completes in this step and is answered 200
PlaybackSucceeds ==
  \E i \in DOMAIN playbacks :
    /\ playbacks[i] # Idle
    /\ playbacks'[i] = Idle
    /\ playbacks[i].tenantId = "t1"
    /\ playbacks[i].cameraId = "c1"
    /\ lastResp'.statusCode = 200

\* C14: two playback requests that interleave on (t1, c1, s1) both succeed
\* or both observe PLAYBACK_SESSION_CLOSED.  Every request here bears sid s1
\* and a closed session stays closed, so a PLAYBACK_SESSION_CLOSED answered
\* before a request succeeds was given while that request was suspended in
\* its read: no request succeeds after one was answered
\* PLAYBACK_SESSION_CLOSED.
C14_BothPlayOrBothClosed ==
  [][PlaybackSucceeds => ~ClosedAnswered]_vars

-----------------------------------------------------------------------------
(* Deprovision and the sessions *)

\* C15: a POST /deprovision of (T, c1) that answers removed=true marks every
\* issued or active session of (T, c1) ended with endReason "deprovisioned"
\* and changes no other session: the ended and expired sessions of (T, c1)
\* and the sessions of every other stream are as they were.
C15_DeprovisionClosesOwnSessions ==
  [][(lastResp'.op = "deprovision" /\ lastResp'.removed)
       => /\ DOMAIN streamSessions' = DOMAIN streamSessions
          /\ \A k \in DOMAIN streamSessions :
               LET session == streamSessions[k]
               IN  streamSessions'[k] =
                     IF /\ session.tenantId = lastResp'.tenantId
                        /\ session.cameraId = lastResp'.cameraId
                        /\ session.status \in {"issued", "active"}
                     THEN [session EXCEPT !.status = "ended", !.endedAt = [iso |-> now],
                                          !.endReason = "deprovisioned"]
                     ELSE session]_vars

\* a deprovision of (t1, c1) has just left an expired session of (t1, c1)
\* expired and an active session of (t2, c1) active
C15_Witness ==
  /\ lastResp.op = "deprovision"
  /\ lastResp.removed
  /\ lastResp.tenantId = "t1"
  /\ Has(streamSessions, Session1)
  /\ streamSessions[Session1].status = "expired"
  /\ Has(streamSessions, streamSessionKey("t2", "c1", "s2"))
  /\ streamSessions[streamSessionKey("t2", "c1", "s2")].status = "active"

-----------------------------------------------------------------------------
(* Health of a stopped stream *)

\* C16: in every reachable state a stream entry with status stopped has
\* health.connectivity offline and health.error "deprovisioned", whatever
\* the interleaving of provisions, deprovisions and probe ticks.
C16_StoppedIsOfflineDeprovisioned ==
  \A key \in DOMAIN streams :
    streams[key].status = "stopped"
      => /\ streams[key].health.connectivity = "offline"
         /\ streams[key].health.error = "deprovisioned"

\* a stream deprovisioned after the clock advanced, while a provision of it
\* is suspended: the entry is stopped, offline and "deprovisioned"
C16_Witness ==
  /\ Has(streams, streamKey("t1", "c1"))
  /\ streams[streamKey("t1", "c1")].status = "stopped"
  /\ streams[streamKey("t1", "c1")].health =
       [connectivity |-> "offline", error |-> "deprovisioned",
        checkedAt |-> [iso |-> StartNow + ClockStep]]
  /\ provisions[1] # Idle

-----------------------------------------------------------------------------
(* Metrics *)

\* the value of a counter, 0 when the key was never incremented
Count(store, key) == IF key \in DOMAIN store THEN store[key] ELSE 0

\* the store after one increment of `key` and nothing else
IncrementedAt(before, after, key) ==
  /\ Count(after, key) = Count(before, key) + 1
  /\ \A k \in (DOMAIN before \cup DOMAIN after) \ {key} : Count(after, k) = Count(before, k)

PlaybackCodes ==
  TokenErrorCodes \cup
  {"PLAYBACK_TOKEN_SCOPE_MISMATCH", "PLAYBACK_STREAM_NOT_FOUND", "PLAYBACK_STREAM_NOT_READY",
   "PLAYBACK_STREAM_STOPPED", "PLAYBACK_SESSION_CLOSED", "PLAYBACK_MANIFEST_NOT_FOUND",
   "PLAYBACK_SEGMENT_NOT_FOUND", "INTERNAL_SERVER_ERROR"}

RECURSIVE ErrorsOver(_, _, _, _, _)
ErrorsOver(store, tenantId, cameraId, asset, codes) ==
  IF codes = {} THEN 0
  ELSE LET code == CHOOSE c \in codes : TRUE
       IN  Count(store, ErrorKey(tenantId, cameraId, asset, code))
             + ErrorsOver(store, tenantId, cameraId, asset, codes \ {code})

\* C17: a step that answers a playback request increments the requests
\* counter of its (tenant, camera, asset) once, with result ok for a 200 and
\* error otherwise, and for an error the errors counter of the code answered
\* once; no other step and no other key changes; so for the (tenant, camera,
\* asset) of every answer, the only one whose counters the step changes, the
\* errors counters summed over the codes equal the requests counter with
\* result error.
C17_MetricsCoverage ==
  [][/\ lastResp'.op = "playback"
          => LET r == lastResp'
                 result == IF r.statusCode = 200 THEN "ok" ELSE "error"
             IN  /\ IncrementedAt(playbackRequestCounters, playbackRequestCounters',
                                  RequestKey(r.tenantId, r.cameraId, r.asset, result))
                 /\ IF result = "error"
                    THEN IncrementedAt(playbackErrorCounters, playbackErrorCounters',
                                       ErrorKey(r.tenantId, r.cameraId, r.asset, r.code))
                    ELSE playbackErrorCounters' = playbackErrorCounters
                 /\ ErrorsOver(playbackErrorCounters', r.tenantId, r.cameraId, r.asset,
                               PlaybackCodes)
                      = Count(playbackRequestCounters',
                              RequestKey(r.tenantId, r.cameraId, r.asset, "error"))
     /\ lastResp'.op # "playback"
          => /\ playbackRequestCounters' = playbackRequestCounters
             /\ playbackErrorCounters' = playbackErrorCounters]_vars

\* one request was refused before the read, one failed in the read, and
\* both are counted under their own code
C17_Witness ==
  /\ Count(playbackErrorCounters,
           ErrorKey("t1", "c1", "segment", "PLAYBACK_SEGMENT_NOT_FOUND")) = 1
  /\ Count(playbackErrorCounters,
           ErrorKey("t1", "c1", "segment", "PLAYBACK_TOKEN_SIGNATURE_INVALID")) = 1
  /\ Count(playbackRequestCounters, RequestKey("t1", "c1", "segment", "error")) = 2

-----------------------------------------------------------------------------
(* The retrying read *)

\* errno codes of a transient failure of the read
TransientErrors == {"ENOENT", "EAGAIN", "EBUSY"}

\* the handler in this slot is suspended in a call of the reader, and the
\* call completes in this step
ReadCompletes(slot) == playbacks[slot].pc = "read" /\ playbacks'[slot] # playbacks[slot]

\* what the call that completes in this step finds on disk
OutcomeOf(slot) ==
  ReadOutcome(playbacks[slot].tenantId, playbacks[slot].cameraId, playbacks[slot].asset)

RetryCount(store, slot) ==
  Count(store, RetryKey(playbacks[slot].tenantId, playbacks[slot].cameraId,
                        playbacks[slot].asset))

\* C18: a read that succeeds after k transient failures (k <= max retries)
\* answers 200 and the request has raised the retry counter of its
\* (tenant, camera, asset) by exactly k; a transient failure met while
\* retries remain is not answered to the client: the retry is counted once
\* and the handler stays in the read.
C18_RetryOnTransientMiss ==
  [][\A slot \in DOMAIN playbacks :
       ReadCompletes(slot) =>
         LET req == playbacks[slot]
             k == Len(req.outcomes)
         IN  /\ OutcomeOf(slot) = "OK"
                  => /\ \A i \in 1..k : req.outcomes[i] \in TransientErrors
                     /\ k <= playbackReadRetries
                     /\ lastResp'.op = "playback"
                     /\ lastResp'.statusCode = 200
                     /\ lastResp'.asset = req.asset
                     /\ playbacks'[slot] = Idle
                     /\ RetryCount(playbackReadRetryCounters', slot) = req.retriesBefore + k
             /\ (OutcomeOf(slot) \in TransientErrors /\ k < playbackReadRetries)
                  => /\ lastResp'.op # "playback"
                     /\ playbacks'[slot].pc = "read"
                     /\ Len(playbacks'[slot].outcomes) = k + 1
                     /\ RetryCount(playbackReadRetryCounters', slot)
                          = RetryCount(playbackReadRetryCounters, slot) + 1
                     /\ playbackRequestCounters' = playbackRequestCounters
                     /\ playbackErrorCounters' = playbackErrorCounters]_vars

\* under a budget of two retries, the only request so far met two failures,
\* a locked file among them, and was then served
C18_Witness ==
  /\ playbackReadRetries = 2
  /\ lastResp.op = "playback"
  /\ lastResp.statusCode = 200
  /\ lastResp.asset = "manifest"
  /\ Count(playbackReadRetryCounters, RetryKey("t1", "c1", "manifest")) = 2
  /\ Total(playbackRequestCounters) = 1
  /\ <<"t1", "c1", "segment", "EBUSY">> \in files

\* C19: with max retries R a request makes at most R + 1 calls of the
\* reader; a failure that is not transient ends the request on the call
\* where it occurs, with no retry counted; a transient failure of call
\* R + 1 ends the request with the retry counter raised by exactly R; both
\* ends answer 404 with the not-found code of the asset.
C19_ReadTerminates ==
  [][\A slot \in DOMAIN playbacks :
       /\ playbacks'[slot].pc = "read" => Len(playbacks'[slot].outcomes) <= playbackReadRetries
       /\ ReadCompletes(slot) =>
            LET req == playbacks[slot]
                k == Len(req.outcomes)
                notFound == IF req.asset = "manifest" THEN "PLAYBACK_MANIFEST_NOT_FOUND"
                            ELSE "PLAYBACK_SEGMENT_NOT_FOUND"
                ends == /\ playbacks'[slot] = Idle
                        /\ lastResp'.op = "playback"
                        /\ lastResp'.statusCode = 404
                        /\ lastResp'.code = notFound
                        /\ playbackReadRetryCounters' = playbackReadRetryCounters
            IN  /\ OutcomeOf(slot) \notin TransientErrors \cup {"OK"} => ends
                /\ (OutcomeOf(slot) \in TransientErrors /\ k >= playbackReadRetries)
                     => /\ ends
                        /\ k = playbackReadRetries
                        /\ RetryCount(playbackReadRetryCounters', slot)
                             = req.retriesBefore + playbackReadRetries]_vars

\* under a budget of two retries the manifest stayed missing through three
\* calls, and the segment, unreadable, was refused on the first call
C19_Witness ==
  /\ playbackReadRetries = 2
  /\ Count(playbackReadRetryCounters, RetryKey("t1", "c1", "manifest")) = 2
  /\ Count(playbackErrorCounters,
           ErrorKey("t1", "c1", "manifest", "PLAYBACK_MANIFEST_NOT_FOUND")) = 1
  /\ <<"t1", "c1", "segment", "EACCES">> \in files
  /\ lastResp.op = "playback"
  /\ lastResp.asset = "segment"
  /\ lastResp.statusCode = 404
  /\ lastResp.code = "PLAYBACK_SEGMENT_NOT_FOUND"
  /\ Count(playbackReadRetryCounters, RetryKey("t1", "c1", "segment")) = 0
  /\ Total(playbackRequestCounters) = 2

-----------------------------------------------------------------------------
(* Backoff *)

RECURSIVE SumSeq(_)
SumSeq(seq) == IF seq = << >> THEN 0 ELSE Head(seq) + SumSeq(Tail(seq))

\* C20: the wait before retry number a is min(base * 2^(a-1), max); the
\* waits of a request do not decrease, none exceeds max, and their sum is at
\* most base * (2^R - 1); base, R and max >= base are non-negative integers.
C20_BackoffArithmetic ==
  /\ playbackReadRetries \in Nat
  /\ playbackReadRetryBaseMs \in Nat
  /\ playbackReadRetryMaxMs >= playbackReadRetryBaseMs
  /\ \A slot \in DOMAIN playbacks :
       playbacks[slot].pc = "read" =>
         LET waits == playbacks[slot].waits
             base == playbackReadRetryBaseMs
             max == playbackReadRetryMaxMs
         IN  /\ Len(waits) = playbacks[slot].attempt
             /\ \A a \in 1..Len(waits) :
                  /\ waits[a] = (IF base * 2^(a - 1) <= max THEN base * 2^(a - 1) ELSE max)
                  /\ waits[a] <= max
                  /\ a > 1 => waits[a - 1] <= waits[a]
             /\ SumSeq(waits) <= base * (2^playbackReadRetries - 1)

\* three waits of one request, the last one cut to the cap
C20_Witness ==
  /\ playbackReadRetryBaseMs = 3
  /\ playbackReadRetryMaxMs = 8
  /\ \E slot \in DOMAIN playbacks :
       /\ playbacks[slot].pc = "read"
       /\ playbacks[slot].waits = <<3, 6, 8>>

-----------------------------------------------------------------------------
(* The probe loop *)

Provisioning(key) == Has(streams, key) /\ streams[key].status = "provisioning"

\* C21: a probe tick gives every entry a health checked at the time of the
\* tick and turns every entry in provisioning into ready and online; with
\* the ticks occurring fairly no stream stays in provisioning forever.
C21_ProbeAdvances ==
  /\ [][ProbeTick =>
          \A key \in DOMAIN streams :
            /\ DateParse(streams'[key].health.checkedAt) = now
            /\ streams[key].status = "provisioning"
                 => /\ streams'[key].status = "ready"
                    /\ streams'[key].health.connectivity = "online"]_vars
  /\ Provisioning("t1:c1") ~> ~Provisioning("t1:c1")

\* the probe made the stream ready after the clock moved, while the
\* provision that created it is still writing its assets
C21_Witness ==
  /\ Has(streams, "t1:c1")
  /\ streams["t1:c1"].status = "ready"
  /\ streams["t1:c1"].health.connectivity = "online"
  /\ DateParse(streams["t1:c1"].health.checkedAt) = StartNow + ClockStep
  /\ \E slot \in DOMAIN provisions : provisions[slot] # Idle

\* C22: no playback request passes the stream-readiness check of (T, C)
\* while a provision of (T, C) is still waiting for its assets to be
\* written.
C22_ReadyOnlyAfterAssets ==
  [][PlaybackAccepted("t1", "c1")
       => \A slot \in DOMAIN provisions :
            provisions[slot] # Idle
              => ~(provisions[slot].tenantId = "t1" /\ provisions[slot].cameraId = "c1")]_vars

-----------------------------------------------------------------------------
(* Recovery of a stopped stream *)

\* C23: a POST /provision that succeeds for a stream deprovisioned before
\* it, whatever valid configuration it carries, leaves the entry ready.
C23_ReprovisionRecovers ==
  [][(/\ "t1:c1" \in stoppedAck
      /\ lastResp'.op = "provision"
      /\ lastResp'.statusCode = 200
      /\ lastResp'.tenantId = "t1"
      /\ lastResp'.cameraId = "c1")
       => streams'["t1:c1"].status = "ready"]_vars

-----------------------------------------------------------------------------
(* Shutdown *)

\* the close hook has run
Closed == probeTimer = NullTimer /\ sessionSweepTimer = NullTimer

\* C25: at most one probe timer and one sweep timer are live at any time,
\* and once the close hook has run no step is a run of the probe callback
\* or of the sweep timer's callback.
C25_ShutdownStopsLoops ==
  /\ [](intervals["probe"] <= 1 /\ intervals["sweep"] <= 1)
  /\ [][Closed => ~ProbeCallback /\ ~SweepCallback]_vars

\* the app closed with a stream registered, an open session that the next
\* sweep would close, and no sweep made so far
C25_Witness ==
  /\ Closed
  /\ intervals = [probe |-> 0, sweep |-> 0]
  /\ Has(streams, "t1:c1")
  /\ sessionSweepCount = 0
  /\ \E k \in DOMAIN streamSessions : SweepExpires(streamSessions[k])

-----------------------------------------------------------------------------
(* Retention *)

\* C26: no step deletes a stream entry or a session: every key of either
\* map is still a key after the step, a stream provisioned in the step has
\* an entry, a session observed in the step has one, and the counts that
\* GET /health reports do not decrease.
C26_EntriesNeverDeleted ==
  [][/\ DOMAIN streams \subseteq DOMAIN streams'
     /\ DOMAIN streamSessions \subseteq DOMAIN streamSessions'
     /\ (\E i \in DOMAIN provisions : ProvisionAccepted(i)) => Has(streams', "t1:c1")
     /\ PlaybackAccepted("t1", "c1") => Has(streamSessions', "t1:c1:s1")
     /\ health'.streams >= health.streams
     /\ health'.sessions >= health.sessions]_vars

\* after a deprovision and a sweep the stopped stream and its closed
\* session are still held
C26_Witness ==
  /\ Has(streams, "t1:c1")
  /\ streams["t1:c1"].status = "stopped"
  /\ Has(streamSessions, "t1:c1:s1")
  /\ streamSessions["t1:c1:s1"].status = "ended"
  /\ sessionSweepCount = 1
  /\ health = [ok |-> TRUE, streams |-> 1, sessions |-> 1]

-----------------------------------------------------------------------------
(* Session observation *)

\* the key of the session of (t1, c1, sid)
SessionKeyOf(sid) == "t1:c1:" \o sid

\* C27: a playback request that passes the token, scope and stream checks
\* with a sid unknown for the stream creates an active session with
\* activatedAt = lastSeenAt = now, issuedAt = iat and expiresAt = exp of the
\* token (seconds to milliseconds); for a known open session it sets
\* status active and lastSeenAt = now, keeps issuedAt and activatedAt, and
\* stores the exp of the token just accepted; no other session changes.
C27_SessionObservation ==
  [][\A slot \in DOMAIN playbacks :
       (playbacks[slot] = Idle /\ playbacks'[slot] # Idle) =>
         LET payload == playbacks'[slot].token[1].payload
             key == SessionKeyOf(payload.sid)
             after == streamSessions'[key]
         IN  /\ Has(streamSessions', key)
             /\ after.status = "active"
             /\ after.sid = payload.sid
             /\ DateParse(after.lastSeenAt) = now
             /\ DateParse(after.expiresAt) = payload.exp * 1000
             /\ after.endedAt = NullTime
             /\ IF Has(streamSessions, key)
                THEN /\ streamSessions[key].status \in {"issued", "active"}
                     /\ after.issuedAt = streamSessions[key].issuedAt
                     /\ after.activatedAt = streamSessions[key].activatedAt
                ELSE /\ DateParse(after.issuedAt) = payload.iat * 1000
                     /\ DateParse(after.activatedAt) = now
             /\ \A k \in DOMAIN streamSessions \ {key} :
                  Has(streamSessions', k) /\ streamSessions'[k] = streamSessions[k]]_vars

\* the session first seen under the short-lived token was seen again, one
\* clock step later, under the renewed one
C27_Witness ==
  /\ Has(streamSessions, "t1:c1:s1")
  /\ streamSessions["t1:c1:s1"].status = "active"
  /\ DateParse(streamSessions["t1:c1:s1"].issuedAt) = 1000
  /\ DateParse(streamSessions["t1:c1:s1"].activatedAt) = StartNow
  /\ DateParse(streamSessions["t1:c1:s1"].lastSeenAt) = StartNow + ClockStep
  /\ DateParse(streamSessions["t1:c1:s1"].expiresAt) = FarExp * 1000

-----------------------------------------------------------------------------
(* Deprovision *)

-----------------------------------------------------------------------------
(* The session list *)

\* the sessions a list under query q is to hold, a filter counting when
\* Counts(q, f) says so
Listed(q, Counts(_, _)) ==
  {streamSessions[k] : k \in {k \in DOMAIN streamSessions :
     \A f \in QueryFields : Counts(q, f) => streamSessions[k][f] = q[f]}}

\* data holds exactly the sessions of the set, each once, the latest seen
\* first, and total is their number
ListIs(resp, sessions) ==
  /\ {resp.data[i] : i \in DOMAIN resp.data} = sessions
  /\ Len(resp.data) = Cardinality(sessions)
  /\ \A i, j \in DOMAIN resp.data :
       i < j => DateParse(resp.data[i].lastSeenAt) >= DateParse(resp.data[j].lastSeenAt)
  /\ resp.total = Len(resp.data)

Supplied(q, f) == f \in DOMAIN q

SuppliedNonEmpty(q, f) == f \in DOMAIN q /\ q[f] # ""

\* C29 as stated: GET /sessions answers exactly the sessions that satisfy
\* every filter the request carries, ordered by lastSeenAt descending, with
\* total their number.
C29_ListAsStated ==
  lastResp.op = "sessions" => ListIs(lastResp, Listed(lastResp.query, Supplied))

\* C29 amended: GET /sessions answers exactly the sessions that satisfy
\* every filter the request carries with a non-empty value (a filter left
\* out or left empty matches everything), ordered by lastSeenAt descending,
\* with total their number.
C29_ListFiltersAndOrder ==
  lastResp.op = "sessions" => ListIs(lastResp, Listed(lastResp.query, SuppliedNonEmpty))

\* a list under an empty tenantId filter and a status filter that holds
\* two sessions, the later seen before the earlier
C29_Witness ==
  /\ lastResp.op = "sessions"
  /\ DOMAIN lastResp.query = {"tenantId", "status"}
  /\ lastResp.query.tenantId = ""
  /\ lastResp.total = 2
  /\ DateParse(lastResp.data[1].lastSeenAt) > DateParse(lastResp.data[2].lastSeenAt)

-----------------------------------------------------------------------------
(* Control-plane stream sessions *)

\* the transitions recorded for a session
HistoryOf(transitions, id) ==
  SelectSeq(transitions, LAMBDA t : t.streamSessionId = id)

\* C30: POST /stream-sessions/:id/activate performs only issued -> active
\* and POST /stream-sessions/:id/end only issued|active -> ended; a call on
\* a session in any other status is refused as an invalid transition (400)
\* and leaves the session's status, activatedAt, endedAt, endReason and its
\* transition history as they were.
C30_OnlyDocumentedTransitions ==
  [][\A id \in DOMAIN streamSessionRows :
       (apiResp'.op \in {"activate", "end"} /\ apiResp'.id = id /\ Stale(Database) = {}) =>
         LET from == streamSessionRows[id].status
             documented == IF apiResp'.op = "activate" THEN from = "issued"
                           ELSE from \in {"issued", "active"}
         IN  IF documented
             THEN /\ apiResp'.statusCode = 200
                  /\ streamSessionRows'[id].status =
                       (IF apiResp'.op = "activate" THEN "active" ELSE "ended")
             ELSE /\ apiResp'.statusCode = 400
                  /\ streamSessionRows'[id] = streamSessionRows[id]
                  /\ HistoryOf(streamSessionTransitions', id) =
                       HistoryOf(streamSessionTransitions, id)]_vars

-----------------------------------------------------------------------------
(* One sweep pass *)

\* what one pass at the time of the step makes of a session
PassOutcome(session) ==
  LET terminal == session.status \in {"ended", "expired"}
      due == session.expiresAt.iso <= now
      idle == now - session.lastSeenAt.iso > sessionIdleTtlMs
  IN  CASE terminal -> "skipped"
        [] ~terminal /\ due -> "expired"
        [] ~terminal /\ ~due /\ session.status = "active" /\ idle -> "ended"
        [] OTHER -> "kept"

\* the sessions that change in this step
Transitioned == {k \in DOMAIN streamSessions : streamSessions'[k] # streamSessions[k]}

\* C32: a sweep pass, by the timer or on request, adds one to the sweep
\* counter also when it closes nothing, and handles each session once:
\* a non-terminal session with expiresAt <= now becomes expired
\* (token_expired) also when it is idle, otherwise an active session with
\* now - lastSeenAt > idleTtl becomes ended (idle_timeout), an issued session
\* is never idle-ended and a terminal one is skipped; the counts answered
\* are the numbers of sessions the pass has expired and ended.
C32_SweepPass ==
  [][/\ sessionSweepCount' \in {sessionSweepCount, sessionSweepCount + 1}
     /\ lastResp'.op = "sweep" => sessionSweepCount' = sessionSweepCount + 1
     /\ sessionSweepCount' = sessionSweepCount + 1
          => /\ DOMAIN streamSessions' = DOMAIN streamSessions
             /\ \A k \in DOMAIN streamSessions :
                  LET session == streamSessions[k]
                      outcome == PassOutcome(session)
                  IN  /\ outcome \in {"skipped", "kept"} => streamSessions'[k] = session
                      /\ outcome = "expired"
                           => streamSessions'[k] =
                                [session EXCEPT !.status = "expired",
                                                !.endedAt = ToISOString(now),
                                                !.endReason = "token_expired"]
                      /\ outcome = "ended"
                           => streamSessions'[k] =
                                [session EXCEPT !.status = "ended",
                                                !.endedAt = ToISOString(now),
                                                !.endReason = "idle_timeout"]
             /\ lastResp'.op = "sweep"
                  => /\ lastResp'.data.expired =
                          Cardinality({k \in Transitioned : streamSessions'[k].status = "expired"})
                     /\ lastResp'.data.ended =
                          Cardinality({k \in Transitioned : streamSessions'[k].status = "ended"})]_vars

\* two passes made: the first expired a session that was idle as well and
\* ended another as idle, the second found nothing to close
C32_Witness ==
  /\ sessionSweepCount = 2
  /\ Has(streamSessions, "t1:c1:s1")
  /\ Has(streamSessions, "t1:c1:s2")
  /\ streamSessions["t1:c1:s1"].status = "expired"
  /\ streamSessions["t1:c1:s1"].endedAt.iso - streamSessions["t1:c1:s1"].lastSeenAt.iso
       > sessionIdleTtlMs
  /\ streamSessions["t1:c1:s2"].status = "ended"
  /\ streamSessions["t1:c1:s2"].endReason = "idle_timeout"
  /\ lastResp.op = "sweep"
  /\ lastResp.data = [expired |-> 0, ended |-> 0]

-----------------------------------------------------------------------------
(* The frame of a probe tick *)

\* C33: a run of the probe callback adds and removes no entry, leaves the
\* sessions alone, keeps tenantId, cameraId, rtspUrl, source and version of
\* every entry, and changes no status but provisioning to ready: a stopped
\* entry stays stopped and a ready one ready whatever is sampled.
C33_ProbeFrame ==
  [][ProbeCallback
       => /\ DOMAIN streams' = DOMAIN streams
          /\ streamSessions' = streamSessions
          /\ \A key \in DOMAIN streams :
               /\ streams'[key].tenantId = streams[key].tenantId
               /\ streams'[key].cameraId = streams[key].cameraId
               /\ streams'[key].rtspUrl = streams[key].rtspUrl
               /\ streams'[key].source = streams[key].source
               /\ streams'[key].version = streams[key].version
               /\ \/ streams'[key].status = streams[key].status
                  \/ /\ streams[key].status = "provisioning"
                     /\ streams'[key].status = "ready"]_vars

\* a ready stream that a probe sampled offline, still ready, its session
\* in place
C33_Witness ==
  /\ Has(streams, "t1:c1")
  /\ streams["t1:c1"].status = "ready"
  /\ streams["t1:c1"].health.connectivity = "offline"
  /\ streams["t1:c1"].version = 1
  /\ Has(streamSessions, "t1:c1:s1")

-----------------------------------------------------------------------------
(* The session upsert among the checks of a playback request *)

\* the errors of the token, the scope and the stream
EarlyCodes ==
  TokenErrorCodes \cup {"PLAYBACK_TOKEN_SCOPE_MISMATCH", "PLAYBACK_STREAM_NOT_FOUND",
                        "PLAYBACK_STREAM_NOT_READY", "PLAYBACK_STREAM_STOPPED"}

AssetCodes == {"PLAYBACK_MANIFEST_NOT_FOUND", "PLAYBACK_SEGMENT_NOT_FOUND"}

\* the sessions created or seen again in this step
Upserted ==
  {k \in DOMAIN streamSessions' :
     \/ k \notin DOMAIN streamSessions
     \/ streamSessions'[k].lastSeenAt # streamSessions[k].lastSeenAt}

\* C34: a playback request refused at the token, at the scope or at the
\* stream leaves the session map as it was; a session is created or seen
\* again only by a request whose token verifies, is in scope of the path and
\* finds the stream ready, and it is active then; and a read that fails
\* with PLAYBACK_MANIFEST_NOT_FOUND or PLAYBACK_SEGMENT_NOT_FOUND leaves the
\* session map, and so the session active, as it was.
C34_UpsertAfterChecks ==
  [][/\ (lastResp'.op = "playback" /\ lastResp'.code \in EarlyCodes \cup AssetCodes)
          => streamSessions' = streamSessions
     /\ \A k \in Upserted :
          \E i \in DOMAIN playbacks :
            /\ playbacks[i] = Idle
            /\ playbacks'[i] # Idle
            /\ k = playbacks'[i].tenantId \o ":" \o playbacks'[i].cameraId \o ":"
                     \o playbacks'[i].token[1].payload.sid
            /\ TokenVerifies(playbacks'[i].token)
            /\ TokenInScope(playbacks'[i].token, playbacks'[i].tenantId, playbacks'[i].cameraId)
            /\ StreamStepCode(playbacks'[i].tenantId \o ":" \o playbacks'[i].cameraId) = "OK"
            /\ streamSessions'[k].status = "active"
            /\ streamSessions'[k].lastSeenAt = ToISOString(now)]_vars

\* a request passed the three checks, its session was stored, and its read
\* found the manifest missing: the session is still active
C34_Witness ==
  /\ lastResp.op = "playback"
  /\ lastResp.code = "PLAYBACK_MANIFEST_NOT_FOUND"
  /\ Has(streamSessions, "t1:c1:s1")
  /\ streamSessions["t1:c1:s1"].status = "active"

-----------------------------------------------------------------------------
(* Token expiry and sweep expiry *)

\* C35: at wall time t the verifier refuses a token of expiry exp (seconds)
\* as PLAYBACK_TOKEN_EXPIRED exactly when exp * 1000 <= t, which is when a
\* sweep at t expires an open session with expiresAt = exp * 1000; hence a
\* session stored by a request accepted at t is not expired by a sweep at t.
C35_ExpiryAgrees ==
  [][/\ \A token \in ExpiryTokens :
          ArrivesWith("t1", "c1", token, "manifest")
            => ((lastResp'.op = "playback" /\ lastResp'.code = "PLAYBACK_TOKEN_EXPIRED")
                  <=> token[1].payload.exp * 1000 <= now)
     /\ SweepRuns
          => \A k \in DOMAIN streamSessions :
               /\ streamSessions[k].status \in {"issued", "active"}
                    => (streamSessions'[k].status = "expired"
                          <=> streamSessions[k].expiresAt.iso <= now)
               /\ (streamSessions[k].status = "active" /\ streamSessions[k].lastSeenAt.iso = now)
                    => streamSessions'[k].status # "expired"]_vars

\* a request under TokenShort was accepted in the last millisecond before
\* the token ran out, and a sweep at that instant left its session active
C35_Witness ==
  /\ now = NearExp * MsPerSecond - 1
  /\ lastResp.op = "sweep"
  /\ lastResp.data.expired = 0
  /\ Has(streamSessions, "t1:c1:s1")
  /\ streamSessions["t1:c1:s1"].status = "active"
  /\ streamSessions["t1:c1:s1"].expiresAt.iso = now + 1
  /\ streamSessions["t1:c1:s1"].lastSeenAt.iso = now

-----------------------------------------------------------------------------
(* The keys of the registry and of the session map *)

\* C36: two distinct (tenantId, cameraId) never share a stream entry and
\* two distinct (tenantId, cameraId, sid) never share a session entry,
\* identifiers that contain ":" included: the entry held under a key is at
\* every step the entry of the same identifiers as before.
C36_KeysInjective ==
  [][/\ \A k \in DOMAIN streams \cap DOMAIN streams' :
          /\ streams'[k].tenantId = streams[k].tenantId
          /\ streams'[k].cameraId = streams[k].cameraId
     /\ \A k \in DOMAIN streamSessions \cap DOMAIN streamSessions' :
          /\ streamSessions'[k].tenantId = streamSessions[k].tenantId
          /\ streamSessions'[k].cameraId = streamSessions[k].cameraId
          /\ streamSessions'[k].sid = streamSessions[k].sid]_vars
-----------------------------------------------------------------------------
(* Login rate limit *)

\* the earlier attempts of the client of attempt i
EarlierOf(i) == {j \in 1..(i - 1) : loginAttempts[j].key = loginAttempts[i].key}

Latest(S) == CHOOSE j \in S : \A k \in S : k <= j

\* the attempt that opened the window attempt i falls in: the client's first,
\* or its first after the window before has elapsed
RECURSIVE WindowOpener(_)
WindowOpener(i) ==
  IF EarlierOf(i) = {} THEN i
  ELSE LET opener == WindowOpener(Latest(EarlierOf(i)))
       IN  IF loginAttempts[i].at > loginAttempts[opener].at + loginRateLimitWindowMs
           THEN i
           ELSE opener

\* the attempts of the client of attempt i processed in its window before it
ProcessedBefore(i) ==
  {j \in EarlierOf(i) : j >= WindowOpener(i) /\ loginAttempts[j].processed}

\* C31: for each client key, within one window of LOGIN_RATE_LIMIT_WINDOW_MS
\* at most LOGIN_RATE_LIMIT_MAX login attempts are processed; every further
\* attempt in the same window is refused with 429 TOO_MANY_REQUESTS without
\* being processed, the attempts of other keys are unaffected, and after the
\* window has elapsed the key's count starts again from one.
C31_LoginRateLimit ==
  /\ \A i \in DOMAIN loginAttempts :
       loginAttempts[i].processed <=>
         Cardinality(ProcessedBefore(i)) < loginRateLimitMax
  /\ apiResp.op = "login" =>
       LET last == loginAttempts[Len(loginAttempts)]
       IN  /\ last.key = apiResp.id
           /\ ~last.processed <=> apiResp.statusCode = 429
           /\ ~last.processed <=> apiResp.code = "TOO_MANY_REQUESTS"
           /\ (last.processed /\ WindowOpener(Len(loginAttempts)) = Len(loginAttempts)) =>
                loginBuckets[last.key].count = 1

\* a client refused in its window while the other is served, and served
\* again once its window has elapsed
C31_Witness ==
  /\ apiResp.op = "login"
  /\ apiResp.statusCode # 429
  /\ loginBuckets[apiResp.id].count = 1
  /\ \E i \in DOMAIN loginAttempts : \E j \in DOMAIN loginAttempts :
       /\ i < j
       /\ loginAttempts[i].key = apiResp.id
       /\ ~loginAttempts[i].processed
       /\ loginAttempts[j].key # apiResp.id
       /\ loginAttempts[j].processed
       /\ loginAttempts[j].at = loginAttempts[i].at
-----------------------------------------------------------------------------
(* Control-plane stream sessions, handlers interleaved *)

\* C37: a control-plane stream session that has reached ended or expired
\* never changes status, endedAt or endReason afterwards, whatever the
\* sequence and interleaving of activate, end and stale-expiry operations
\* on it.
C37_TerminalSticky ==
  [][\A id \in DOMAIN streamSessionRows :
       streamSessionRows[id].status \in {"ended", "expired"} =>
         /\ streamSessionRows'[id].status = streamSessionRows[id].status
         /\ streamSessionRows'[id].endedAt = streamSessionRows[id].endedAt
         /\ streamSessionRows'[id].endReason = streamSessionRows[id].endReason]_vars
-----------------------------------------------------------------------------
(* Camera lifecycle *)

\* C38: when validate, retire, reactivate or POST /cameras/:id/health is
\* refused with INVALID_LIFECYCLE_TRANSITION, nothing of the camera has
\* changed: lifecycleStatus, isActive, the stored health snapshot and the
\* lifecycle history are as before the request.
C38_RefusedLeavesCamera ==
  [][(/\ apiResp'.op \in {"validate", "retire", "reactivate", "health"}
      /\ apiResp'.error = "INVALID_LIFECYCLE_TRANSITION") =>
       /\ cameras'[apiResp'.id].lifecycleStatus = cameras[apiResp'.id].lifecycleStatus
       /\ cameras'[apiResp'.id].isActive = cameras[apiResp'.id].isActive
       /\ cameraHealthSnapshots' = cameraHealthSnapshots
       /\ cameraLifecycleLogs' = cameraLifecycleLogs]_vars

====
